---- MODULE Spec2Model ----
(***************************************************************************)
(* DOS keyboard-layout and code-page engine of dosbox-staging              *)
(* (src/src/dos/dos_keyboard_layout.cpp): the KL/KCL parsers, the layout   *)
(* runtime (layout_key / map_key), the CPI/CPX code-page loader and the    *)
(* session functions DOS_LoadKeyboardLayout, DOS_SwitchKeyboardLayout and  *)
(* DOS_LayoutKey.                                                          *)
(*                                                                         *)
(* Bytes are naturals 0..255, files are sequences of bytes (index 0 of the *)
(* C code is element 1 of the sequence), C strings are sequences of        *)
(* character codes.  An access outside a C array is undefined behaviour:   *)
(* the model records it in "halted" and takes no further step.             *)
(***************************************************************************)
EXTENDS Integers, Sequences, FiniteSets, TLC

\* ------------------------------------------------------------------------
\* Program constants
\* ------------------------------------------------------------------------
MAX_SCAN_CODE == 88
layout_pages == 12
READ_BUF_LEN == 65535
DIACRITICS_LEN == 2048
UINT8_MAX == 255

KEYB_NOERROR == 0
KEYB_FILENOTFOUND == 1
KEYB_INVALIDFILE == 2
KEYB_LAYOUTNOTFOUND == 3
KEYB_INVALIDCPFILE == 4

TABLE_LEN == (MAX_SCAN_CODE + 1) * layout_pages

\* ------------------------------------------------------------------------
\* Fixed-width integer helpers
\* ------------------------------------------------------------------------
Max(a, b) == IF a >= b THEN a ELSE b

\* 2^n for the bit numbers of a 16-bit word
Pow2(n) ==
  <<1, 2, 4, 8, 16, 32, 64, 128, 256, 512, 1024, 2048, 4096, 8192, 16384,
    32768>>[n + 1]

\* a bitwise operation on two w-bit words, w a power of two; op[x][y] is its
\* result on the bits x and y
RECURSIVE BitOp(_, _, _, _)
BitOp(op, a, b, w) ==
  IF w = 1 THEN op[a][b]
  ELSE LET h == w \div 2
           m == Pow2(h)
       IN  BitOp(op, a % m, b % m, h) + m * BitOp(op, a \div m, b \div m, h)

\* & | ^ on 16-bit words
BitAnd(a, b) == BitOp([x \in 0..1 |-> [y \in 0..1 |-> x * y]], a, b, 16)
BitOr(a, b) == BitOp([x \in 0..1 |-> [y \in 0..1 |-> Max(x, y)]], a, b, 16)

\* | in the place of ^
BitXor_as_or(a, b) == BitOr(a, b)

BitXor(a, b) == BitOp([x \in 0..1 |-> [y \in 0..1 |-> (x + y) % 2]], a, b, 16)

\* x as it is
ClearBit_off(x, n) == x

\* x as it is
SetBit_off(x, n) == x

\* x with bit n cleared / bit n of x
ClearBit(x, n) == IF (x \div Pow2(n)) % 2 = 1 THEN x - Pow2(n) ELSE x
SetBit(x, n) == IF (x \div Pow2(n)) % 2 = 1 THEN x ELSE x + Pow2(n)
TestBit(x, n) == (x \div Pow2(n)) % 2 = 1

\* little-endian 16-bit word as two bytes
W16(x) == <<x % 256, (x \div 256) % 256>>

RECURSIVE Zeros(_)
Zeros(n) == IF n <= 0 THEN <<>> ELSE <<0>> \o Zeros(n - 1)

RECURSIVE Flatten(_)
Flatten(ss) == IF ss = <<>> THEN <<>> ELSE Head(ss) \o Flatten(Tail(ss))

\* ------------------------------------------------------------------------
\* C strings
\* ------------------------------------------------------------------------
\* the characters before the first NUL
RECURSIVE CStr(_)
CStr(s) ==
  IF s = <<>> \/ Head(s) = 0 THEN <<>> ELSE <<Head(s)>> \o CStr(Tail(s))

ToLower(c) == IF c >= 65 /\ c <= 90 THEN c + 32 ELSE c

LowerStr(s) == [i \in 1..Len(s) |-> ToLower(s[i])]

\* strcasecmp(a, b) == 0
StrCaseEq(a, b) == LowerStr(CStr(a)) = LowerStr(CStr(b))

\* strncmp(a, b, n) == 0
StrNEq(a, b, n) ==
  LET x == CStr(a)
      y == CStr(b)
  IN  \A i \in 1..n :
        \/ (i <= Len(x) /\ i <= Len(y) /\ x[i] = y[i])
        \/ (i > Len(x) /\ i > Len(y))

\* strncasecmp(a, b, n) == 0: the first n characters agree (a NUL ends both)
StrNCaseEq(a, b, n) ==
  LET x == LowerStr(CStr(a))
      y == LowerStr(CStr(b))
  IN  \A i \in 1..n :
        \/ (i <= Len(x) /\ i <= Len(y) /\ x[i] = y[i])
        \/ (i > Len(x) /\ i > Len(y))

\* decimal digits of n (sprintf "%d")
RECURSIVE Decimal(_)
Decimal(n) ==
  IF n < 10 THEN <<48 + n>> ELSE Decimal(n \div 10) \o <<48 + (n % 10)>>

\* ------------------------------------------------------------------------
\* Inputs: layout names and the files of the emulated drives
\* ------------------------------------------------------------------------
\* layout names (C strings)
N_none == <<110, 111, 110, 101>>
N_gr == <<103, 114>>
N_de == <<100, 101>>
N_g == <<103>>
N_fr == <<102, 114>>
N_tr == <<116, 114>>
N_zz == <<122, 122>>
N_ov == <<111, 118>>
N_kc == <<107, 99>>
N_ka == <<107, 97>>
N_xx == <<120, 120>>
N_US == <<85, 83>>
N_us == <<117, 115>>
N_Usx == <<85, 115, 120>>
N_auto == <<97, 117, 116, 111>>

\* one record of a key-mapping table: scan, flags_and_len, command_bits, entries
KeyRec(scan, flags, cmdbits, entries) == <<scan, flags, cmdbits>> \o entries

\* the KeybCB block of a KL payload: submappings count, additional_planes byte,
\* 18 further header bytes, one 8-byte descriptor per submapping, the plane
\* masks, then each submapping's key table and diacritics table.  An empty
\* table gets offset 0 ("absent").
RECURSIVE SumLens(_, _)
SumLens(subs, k) ==
  IF k = 0 THEN 0
  ELSE Len(subs[k].keys) + Len(subs[k].dia) + SumLens(subs, k - 1)

KeybCB(ap, planes, subs) ==
  LET base == 20 + 8 * Len(subs) + 8 * Len(planes)
      descr == [k \in 1..Len(subs) |->
                  W16(subs[k].cp)
                    \o W16(IF subs[k].keys = <<>> THEN 0
                           ELSE base + SumLens(subs, k - 1))
                    \o W16(IF subs[k].dia = <<>> THEN 0
                           ELSE base + SumLens(subs, k - 1) + Len(subs[k].keys))
                    \o <<0, 0>>]
      pl == [k \in 1..Len(planes) |->
               W16(planes[k][1]) \o W16(planes[k][2])
                 \o W16(planes[k][3]) \o W16(planes[k][4])]
      tb == [k \in 1..Len(subs) |-> subs[k].keys \o subs[k].dia]
  IN  <<Len(subs), ap>> \o Zeros(18) \o Flatten(descr) \o Flatten(pl) \o Flatten(tb)

\* a KL payload: data_len, the language-code list, the KeybCB block
KLPayload(codes, cb) == <<Len(codes)>> \o codes \o cb

\* a bare .KL file: the magic "KLF", two more header bytes, the payload
KLFile(codes, cb) == <<75, 76, 70, 0, 1>> \o KLPayload(codes, cb)

\* "gr": language codes gr and de; two additional planes (plane 0 wants Alt and
\* forbids Ctrl, plane 1 wants user flag 0); a wildcard submapping, one for
\* code page 437 with two dead keys and one for code page 850 with one.
Codes_gr == <<0, 0>> \o N_gr \o <<44>> \o <<0, 0>> \o N_de

Planes_gr == << <<8, 4, 0, 0>>, <<0, 0, 1, 0>> >>

Sub0_gr ==
  [cp |-> 0,
   keys |-> KeyRec(16, 65, 0, <<113, 81>>)
         \o KeyRec(30, 66, 0, <<97, 65, 225>>)
         \o KeyRec(26, 1, 3, <<200, 201>>)
         \o KeyRec(41, 1, 3, <<188, 180>>)
         \o KeyRec(43, 1, 3, <<120, 121>>)
         \o KeyRec(44, 128, 0, <<121, 21>>)
         \o KeyRec(56, 0, 0, <<64>>)
         \o <<0>>,
   dia |-> <<>>]

Sub1_gr ==
  [cp |-> 437,
   keys |-> KeyRec(17, 1, 0, <<119, 87>>)
         \o KeyRec(18, 3, 0, <<101, 69, 0, 238>>)
         \o <<0>>,
   dia |-> <<94, 2, 97, 131, 101, 136, 96, 1, 97, 133, 0>>]

Sub2_gr ==
  [cp |-> 850,
   keys |-> KeyRec(56, 0, 0, <<64>>)
         \o KeyRec(17, 1, 2, <<119, 160>>)
         \o <<0>>,
   dia |-> <<94, 1, 97, 131, 0>>]

KL_gr == KLFile(Codes_gr, KeybCB(2, Planes_gr, <<Sub0_gr, Sub1_gr, Sub2_gr>>))

\* "fr": a single submapping for code page 850, no wildcard
KL_fr ==
  KLFile(<<0, 0>> \o N_fr,
         KeybCB(0, <<>>,
                <<[cp |-> 850,
                   keys |-> KeyRec(16, 1, 0, <<97, 65>>) \o <<0>>,
                   dia |-> <<>>]>>))

\* "tr": a file cut after its four identification bytes
KL_tr == <<75, 76, 70, 0>>

\* "zz": not a KL file
KL_zz == <<77, 90, 70, 0, 1, 0, 0, 0>>

\* "ov": a diacritics table of four sub-tables of 255 pairs each, so that the
\* table walk ends at offset 2048 without meeting a terminator
KL_ov ==
  LET head == KLFile(<<0, 0>> \o N_ov,
                     <<1, 0>> \o Zeros(18)
                       \o W16(0) \o W16(0) \o W16(28) \o <<0, 0>>)
      body == [i \in 1..1540 |->
                 IF (i - 1) % 512 = 0 THEN 94
                 ELSE IF (i - 1) % 512 = 1 THEN 255
                 ELSE 7]
  IN  head \o body

\* "ap": the additional_planes byte is 200, the one submapping is for code page
\* 437 and has no tables, and the file ends inside the plane masks
KL_ap ==
  KLFile(<<0, 0>> \o <<97, 112>>,
         <<1, 200>> \o Zeros(18)
           \o W16(437) \o W16(0) \o W16(0) \o <<0, 0>> \o W16(16) \o W16(0))

N_ap == <<97, 112>>

N_ct == <<99, 116>>
N_pl == <<112, 108>>

\* "ct": the file ends inside the last key record of its second submapping,
\* after the three header bytes of a record of two entries
KL_ct ==
  KLFile(<<0, 0>> \o N_ct,
         KeybCB(0, <<>>,
                <<[cp |-> 0,
                   keys |-> KeyRec(43, 1, 3, <<120, 121>>) \o <<0>>,
                   dia |-> <<>>],
                  [cp |-> 437,
                   keys |-> KeyRec(16, 1, 0, <<>>),
                   dia |-> <<>>]>>))

\* "pl": a single submapping for code page 999, which no CPX file provides
KL_pl ==
  KLFile(<<0, 0>> \o N_pl,
         KeybCB(0, <<>>,
                <<[cp |-> 999,
                   keys |-> KeyRec(16, 1, 0, <<112, 80>>)
                              \o KeyRec(17, 1, 0, <<108, 76>>)
                              \o KeyRec(18, 1, 0, <<122, 90>>)
                              \o KeyRec(19, 1, 0, <<120, 88>>) \o <<0>>,
                   dia |-> <<>>]>>))

N_lk == <<108, 107>>

\* "lk": two additional planes, the first wants Caps Lock and Alt and forbids
\* Num Lock, the second wants Scroll Lock and user flag 5 and forbids user
\* flag 6; one submapping for code page 437 in which key 17 is a command
\* with a code that stands for no action
KL_lk ==
  KLFile(<<0, 0>> \o N_lk,
         KeybCB(2, << <<72, 32, 0, 0>>, <<16, 0, 32, 64>> >>,
                <<[cp |-> 437,
                   keys |-> KeyRec(16, 65, 0, <<108, 76>>)
                              \o KeyRec(17, 0, 1, <<100>>)
                              \o KeyRec(30, 66, 0, <<97, 65, 229>>)
                              \o KeyRec(43, 0, 1, <<120>>) \o <<0>>,
                   dia |-> <<>>]>>))

N_mx == <<109, 120>>

\* "mx": no language codes, no additional planes and seven submappings.  Two wildcards, the
\* second with three records for key 16, one of them three entries long; two
\* for code page 437; one for code page 850 whose first record has a scan
\* code above MAX_SCAN_CODE and two-byte entries; one for code page 866 with
\* a record for scan code 144; one for code page 852.  The file ends one
\* byte before the key table of the last submapping.
KL_mx ==
  LET full ==
        KLFile(<<>>,
               KeybCB(0, <<>>,
                      <<[cp |-> 0,
                         keys |-> KeyRec(16, 65, 2, <<113, 160>>) \o <<0>>,
                         dia |-> <<>>],
                        [cp |-> 0,
                         keys |-> KeyRec(16, 32, 0, <<0>>)
                                    \o KeyRec(16, 18, 5, <<0, 81, 101>>)
                                    \o KeyRec(20, 3, 8, <<116, 84, 0, 161>>)
                                    \o <<0>>,
                         dia |-> <<>>],
                        [cp |-> 437,
                         keys |-> KeyRec(17, 1, 0, <<119, 87>>) \o <<0>>,
                         dia |-> <<>>],
                        [cp |-> 437,
                         keys |-> KeyRec(18, 1, 0, <<101, 69>>) \o <<0>>,
                         dia |-> <<>>],
                        [cp |-> 850,
                         keys |-> KeyRec(89, 130, 0, <<1, 2, 3, 4, 5, 6>>)
                                    \o KeyRec(19, 0, 0, <<114>>)
                                    \o <<0, 0, 0>>,
                         dia |-> <<>>],
                        [cp |-> 866,
                         keys |-> KeyRec(144, 0, 0, <<65>>) \o <<0>>,
                         dia |-> <<>>],
                        [cp |-> 852,
                         keys |-> <<0>>,
                         dia |-> <<>>]>>))
  IN  SubSeq(full, 1, Len(full) - 2)

\* the bare .KL files of the drive, by layout name
KLFiles ==
  (N_gr :> KL_gr) @@ (N_fr :> KL_fr) @@ (N_tr :> KL_tr) @@ (N_zz :> KL_zz)
    @@ (N_ov :> KL_ov) @@ (N_ap :> KL_ap) @@ (N_ct :> KL_ct) @@ (N_pl :> KL_pl)
    @@ (N_lk :> KL_lk) @@ (N_mx :> KL_mx)

\* one record of a KCL library: len, data_len, the language-code list (each id
\* preceded by its 16-bit lcnum, ids separated by commas), the KeybCB block
KCLRecord(codes, cb) == W16(Len(codes) + Len(cb)) \o <<Len(codes)>> \o codes \o cb

\* a KCL library: the magic "KCF", three more bytes, the skip count, the records
KCLFile(skip, records) ==
  <<75, 67, 70, 0, 1, 0, Len(skip)>> \o skip \o Flatten(records)

CB_kc ==
  KeybCB(0, <<>>,
         <<[cp |-> 0,
            keys |-> KeyRec(16, 1, 0, <<107, 75>>) \o <<0>>,
            dia |-> <<>>]>>)

CB_ka ==
  KeybCB(0, <<>>,
         <<[cp |-> 0,
            keys |-> KeyRec(16, 1, 0, <<120, 88>>) \o <<0>>,
            dia |-> <<>>]>>)

N_kb == <<107, 98>>
N_kd == <<107, 100>>

CB_kb ==
  KeybCB(0, <<>>,
         <<[cp |-> 437,
            keys |-> KeyRec(16, 1, 0, <<98, 66>>) \o <<0>>,
            dia |-> <<>>]>>)

CB_kd ==
  KeybCB(0, <<>>,
         <<[cp |-> 437,
            keys |-> KeyRec(16, 1, 0, <<100, 68>>) \o <<0>>,
            dia |-> <<>>]>>)

\* keyboard.sys holds a record whose second id is "kc" and one whose second id
\* is "kd"; keybrd2.sys holds a record whose first id is "kd"; the first
\* built-in library holds a record whose first id is "kc"
LIB_keyboard_sys ==
  KCLFile(<<9>>, <<KCLRecord(<<0, 0>> \o N_ka \o <<44>> \o <<0, 0>> \o N_kc, CB_ka),
                   KCLRecord(<<0, 0>> \o N_kb \o <<44>> \o <<0, 0>> \o N_kd, CB_kb)>>)

LIB_keybrd2_sys ==
  KCLFile(<<>>, <<KCLRecord(<<0, 0>> \o N_kd, CB_kd)>>)

BLOB_0 ==
  KCLFile(<<>>, <<KCLRecord(<<0, 0>> \o N_kc, CB_kc)>>)

\* the library files of the drive in the order the parser tries them
\* (<<>> : no such file)
KCLLibFiles == <<LIB_keyboard_sys, LIB_keybrd2_sys, <<>>, <<>>>>

\* BLOB_KEYBOARD_SYS, the built-in libraries
BLOB_KEYBOARD_SYS == <<BLOB_0, <<75, 67, 70, 0, 0, 0, 0>>, <<75, 67, 70, 0, 0, 0, 0>>,
                       <<75, 67, 70, 0, 0, 0, 0>>>>

\* ------------------------------------------------------------------------
\* The layout object (class keyboard_layout)
\* ------------------------------------------------------------------------
\* current_layout, an array of TABLE_LEN 16-bit words, is held as the function
\* from the indices of its non-zero words to their values.
ZeroTable == [i \in {} |-> 0]

TGet(cl, i) == IF i \in DOMAIN cl THEN cl[i] ELSE 0

TSet(cl, i, v) ==
  IF i \in DOMAIN cl THEN [cl EXCEPT ![i] = v]
  ELSE IF v = 0 THEN cl
  ELSE (i :> v) @@ cl

\* The same array with the indices of zero words dropped again.
TNorm(cl) == [j \in {k \in DOMAIN cl : cl[k] # 0} |-> cl[j]]

ResetPlanes ==
  [i \in 0..(layout_pages - 5) |->
     [required_flags |-> 0, forbidden_flags |-> 65535,
      required_userflags |-> 0, forbidden_userflags |-> 65535]]

\* no reset at all
reset_off(l) == l

\* keyboard_layout::reset
reset(l) ==
  [l EXCEPT !.current_layout = ZeroTable,
            !.current_layout_planes = ResetPlanes,
            !.used_lock_modifiers = 15,
            !.diacritics_entries = 0,
            !.diacritics_character = 0,
            !.user_keys = 0,
            !.language_code_count = 0]

\* keyboard_layout::keyboard_layout.  diacritics holds the bytes of the array
\* written so far (a prefix of it; the constructor initialises none).
keyboard_layout ==
  reset([current_layout |-> ZeroTable,
         current_layout_planes |-> ResetPlanes,
         additional_planes |-> 0,
         used_lock_modifiers |-> 15,
         diacritics |-> <<>>,
         diacritics_entries |-> 0,
         diacritics_character |-> 0,
         user_keys |-> 0,
         current_keyboard_file_name |-> N_none,
         use_foreign_layout |-> FALSE,
         language_codes |-> <<>>,
         language_code_count |-> 0])

\* ------------------------------------------------------------------------
\* The static read buffer of read_keyboard_file
\* ------------------------------------------------------------------------
\* read_buf[i], i inside the array: bytes never written are 0 (static storage)
Rd(rb, i) == IF i < Len(rb) THEN rb[i + 1] ELSE 0

\* host_readw(&read_buf[i])
RdW(rb, i) == Rd(rb, i) + 256 * Rd(rb, i + 1)

\* fread(read_buf, 1, count, f) with the file position at offset pos: the
\* bytes read replace the start of the buffer, the rest of it stays
FreadCount(f, pos, count) ==
  IF Max(Len(f) - pos, 0) <= count THEN Max(Len(f) - pos, 0) ELSE count

Fread(rb, f, pos, count) ==
  LET n == FreadCount(f, pos, count)
  IN  [i \in 1..Max(Len(rb), n) |-> IF i <= n THEN f[pos + i] ELSE rb[i]]

\* ------------------------------------------------------------------------
\* KCL library index (read_kcl_file, read_kcl_data)
\* ------------------------------------------------------------------------
\* The id list of one record as read_kcl_data walks it.  dpos is the index
\* of the next id character, i the count consumed of data_len.  Result: found,
\* ub (an index outside the vector was read).
RECURSIVE KclDataId(_, _, _, _, _)
KclDataId(kcl, data_len, i, dpos, acc) ==
  IF i >= data_len \/ dpos + 1 > Len(kcl)
  THEN [i |-> i, dpos |-> dpos, code |-> acc]
  ELSE LET lc == kcl[dpos + 1]
       IN  IF lc = 44
           THEN [i |-> i + 1, dpos |-> dpos + 1, code |-> acc]
           ELSE KclDataId(kcl, data_len, i + 1, dpos + 1, Append(acc, lc))

RECURSIVE KclDataCodes(_, _, _, _, _, _)
KclDataCodes(kcl, layout_id, first_id_only, data_len, i, dpos) ==
  IF i >= data_len THEN [found |-> FALSE, ub |-> FALSE]
  ELSE IF dpos - 1 >= Len(kcl) THEN [found |-> FALSE, ub |-> TRUE]
  ELSE
    LET lcnum == kcl[dpos - 1] + 256 * kcl[dpos]
        r == KclDataId(kcl, data_len, i + 2, dpos, <<>>)
    IN  IF StrCaseEq(r.code, layout_id) THEN [found |-> TRUE, ub |-> FALSE]
        ELSE IF first_id_only THEN [found |-> FALSE, ub |-> FALSE]
        ELSE IF lcnum # 0 /\ StrCaseEq(CStr(r.code) \o Decimal(lcnum), layout_id)
        THEN [found |-> TRUE, ub |-> FALSE]
        ELSE KclDataCodes(kcl, layout_id, first_id_only, data_len, r.i, r.dpos + 2)

RECURSIVE KclDataRecords(_, _, _, _)
KclDataRecords(kcl, layout_id, first_id_only, dpos) ==
  IF dpos + 5 > Len(kcl) THEN [pos |-> 0, ub |-> FALSE]
  ELSE
    LET cur_pos == dpos
        len == kcl[dpos + 1] + 256 * kcl[dpos + 2]
        data_len == kcl[dpos + 3]
        r == KclDataCodes(kcl, layout_id, first_id_only, data_len, 0, dpos + 5)
    IN  IF r.ub THEN [pos |-> 0, ub |-> TRUE]
        ELSE IF r.found THEN [pos |-> cur_pos, ub |-> FALSE]
        ELSE KclDataRecords(kcl, layout_id, first_id_only, cur_pos + 3 + len)

\* read_kcl_data: the offset of the record of layout_id, 0 when there is none
read_kcl_data(kcl_data, layout_id, first_id_only) ==
  IF Len(kcl_data) = 0 THEN [pos |-> 0, ub |-> TRUE]
  ELSE IF kcl_data[1] # 75 THEN [pos |-> 0, ub |-> FALSE]
  ELSE IF Len(kcl_data) = 1 THEN [pos |-> 0, ub |-> TRUE]
  ELSE IF kcl_data[2] # 67 THEN [pos |-> 0, ub |-> FALSE]
  ELSE IF Len(kcl_data) = 2 THEN [pos |-> 0, ub |-> TRUE]
  ELSE IF kcl_data[3] # 70 THEN [pos |-> 0, ub |-> FALSE]
  ELSE IF Len(kcl_data) < 7 THEN [pos |-> 0, ub |-> TRUE]
  ELSE KclDataRecords(kcl_data, layout_id, first_id_only, 7 + kcl_data[7])

\* The id list of one record as read_kcl_file reads it from the file; fp is
\* the file position.  A short fread ends the loop it is in.
RECURSIVE KclFileId(_, _, _, _, _)
KclFileId(f, data_len, i, fp, acc) ==
  IF i >= data_len \/ fp + 1 > Len(f)
  THEN [i |-> i, fp |-> fp, code |-> acc]
  ELSE LET c == f[fp + 1]
       IN  IF c = 44
           THEN [i |-> i + 1, fp |-> fp + 1, code |-> acc]
           ELSE KclFileId(f, data_len, i + 1, fp + 1, Append(acc, c))

RECURSIVE KclFileCodes(_, _, _, _, _, _)
KclFileCodes(f, layout_id, first_id_only, data_len, i, fp) ==
  IF i >= data_len \/ fp + 2 > Len(f) THEN FALSE
  ELSE
    LET lcnum == f[fp + 1] + 256 * f[fp + 2]
        r == KclFileId(f, data_len, i + 2, fp + 2, <<>>)
    IN  IF StrCaseEq(r.code, layout_id) THEN TRUE
        ELSE IF first_id_only THEN FALSE
        ELSE IF lcnum # 0 /\ StrCaseEq(CStr(r.code) \o Decimal(lcnum), layout_id)
        THEN TRUE
        ELSE KclFileCodes(f, layout_id, first_id_only, data_len, r.i, r.fp)

\* the record loop; asserted: the assert(data_len < UINT8_MAX) of a build with
\* assertions failed
RECURSIVE KclFileRecords(_, _, _, _, _)
KclFileRecords(f, layout_id, first_id_only, cur_pos, ndbg) ==
  IF cur_pos + 5 > Len(f) THEN [pos |-> 0, asserted |-> FALSE]
  ELSE
    LET len == f[cur_pos + 1] + 256 * f[cur_pos + 2]
        data_len == f[cur_pos + 3]
    IN  IF data_len >= UINT8_MAX /\ ~ndbg THEN [pos |-> 0, asserted |-> TRUE]
        ELSE IF KclFileCodes(f, layout_id, first_id_only, data_len, 0, cur_pos + 3)
        THEN [pos |-> cur_pos, asserted |-> FALSE]
        ELSE KclFileRecords(f, layout_id, first_id_only, cur_pos + 3 + len, ndbg)

\* read_kcl_file; f = <<>> : the file does not exist
read_kcl_file(f, layout_id, first_id_only, ndbg) ==
  IF Len(f) < 7 \/ f[1] # 75 \/ f[2] # 67 \/ f[3] # 70
  THEN [pos |-> 0, asserted |-> FALSE]
  ELSE KclFileRecords(f, layout_id, first_id_only, 7 + f[7], ndbg)

\* ------------------------------------------------------------------------
\* KL parser (keyboard_layout::read_keyboard_file)
\* ------------------------------------------------------------------------
\* The library search of read_keyboard_file: the four library files with
\* first_id_only, then without, then the four built-in libraries likewise.
\* k counts the sixteen attempts.  Result: how the search ended, the library
\* and the record offset found.
TryLibrary_no_first_id(name, k, ndbg) ==
  LET n == ((k - 1) % 4) + 1
      File(f) ==
        IF f.asserted THEN [how |-> "assert", lib |-> n, pos |-> 0]
        ELSE IF f.pos # 0 THEN [how |-> "file", lib |-> n, pos |-> f.pos]
        ELSE [how |-> "notfound", lib |-> 0, pos |-> 0]
      Builtin(b) ==
        IF b.ub THEN [how |-> "ub", lib |-> n, pos |-> 0]
        ELSE IF b.pos # 0 THEN [how |-> "builtin", lib |-> n, pos |-> b.pos]
        ELSE [how |-> "notfound", lib |-> 0, pos |-> 0]
  IN  IF k <= 8
      THEN File(read_kcl_file(KCLLibFiles[n], name, FALSE, ndbg))
      ELSE Builtin(read_kcl_data(BLOB_KEYBOARD_SYS[n], name, FALSE))

TryLibrary(name, k, ndbg) ==
  LET n == ((k - 1) % 4) + 1
      first_id_only == (k <= 4) \/ (k >= 9 /\ k <= 12)
      File(f) ==
        IF f.asserted THEN [how |-> "assert", lib |-> n, pos |-> 0]
        ELSE IF f.pos # 0 THEN [how |-> "file", lib |-> n, pos |-> f.pos]
        ELSE [how |-> "notfound", lib |-> 0, pos |-> 0]
      Builtin(b) ==
        IF b.ub THEN [how |-> "ub", lib |-> n, pos |-> 0]
        ELSE IF b.pos # 0 THEN [how |-> "builtin", lib |-> n, pos |-> b.pos]
        ELSE [how |-> "notfound", lib |-> 0, pos |-> 0]
  IN  IF k <= 8
      THEN File(read_kcl_file(KCLLibFiles[n], name, first_id_only, ndbg))
      ELSE Builtin(read_kcl_data(BLOB_KEYBOARD_SYS[n], name, first_id_only))

\* the first of the sixteen attempts, in their order, that ends the search
TryLibraries(name, ndbg) ==
  LET ends == {k \in 1..16 : TryLibrary(name, k, ndbg).how # "notfound"}
  IN  IF ends = {} THEN [how |-> "notfound", lib |-> 0, pos |-> 0]
      ELSE TryLibrary(name, CHOOSE k \in ends : \A j \in ends : k <= j, ndbg)

\* Opening the layout: the bare file name.kl, else the libraries.  Result:
\* ret (an error code, or KEYB_NOERROR to go on), the buffer after the
\* freads, read_buf_size, start_pos, and halt.
OpenLayout(rb, name, ndbg) ==
  LET Opened(ret, buf, size, start_pos, halt) ==
        [ret |-> ret, rb |-> buf, size |-> size, start_pos |-> start_pos,
         halt |-> halt]
      Bare(f, rb1) ==
        IF FreadCount(f, 0, 4) < 4
             \/ Rd(rb1, 0) # 75 \/ Rd(rb1, 1) # 76 \/ Rd(rb1, 2) # 70
        THEN Opened(KEYB_INVALIDFILE, rb1, 0, 5, "")
        ELSE Opened(KEYB_NOERROR, Fread(rb1, f, 0, READ_BUF_LEN),
                    FreadCount(f, 0, READ_BUF_LEN), 5, "")
      BareFile(f) == Bare(f, Fread(rb, f, 0, 4))
      Record(lib, pos) ==
        Opened(KEYB_NOERROR, Fread(rb, lib, pos + 2, READ_BUF_LEN),
               FreadCount(lib, pos + 2, READ_BUF_LEN), 0, "")
      Library(t) ==
        CASE t.how = "notfound" -> Opened(KEYB_FILENOTFOUND, rb, 0, 0, "")
          [] t.how \in {"assert", "ub"} -> Opened(KEYB_NOERROR, rb, 0, 0, t.how)
          [] t.how = "file" -> Record(KCLLibFiles[t.lib], t.pos)
          [] t.how = "builtin" -> Record(BLOB_KEYBOARD_SYS[t.lib], t.pos)
  IN  IF name \in DOMAIN KLFiles THEN BareFile(KLFiles[name])
      ELSE Library(TryLibraries(name, ndbg))

\* one language code: the characters up to a comma or to data_len
RECURSIVE LangCode(_, _, _, _, _, _)
LangCode(rb, start_pos, data_len, i, acc, mr) ==
  IF i >= data_len THEN [i |-> i, code |-> acc, mr |-> mr]
  ELSE LET lcode == Rd(rb, start_pos + i)
           mr1 == Max(mr, start_pos + i)
       IN  IF lcode = 44 THEN [i |-> i + 1, code |-> acc, mr |-> mr1]
           ELSE LangCode(rb, start_pos, data_len, i + 1, Append(acc, lcode), mr1)

\* all language codes of the layout
RECURSIVE LangCodes(_, _, _, _, _, _)
LangCodes(rb, start_pos, data_len, i, codes, mr) ==
  IF i >= data_len THEN [codes |-> codes, mr |-> mr]
  ELSE LET r == LangCode(rb, start_pos, data_len, i + 2, <<>>, mr)
       IN  LangCodes(rb, start_pos, data_len, r.i, Append(codes, r.code), r.mr)

\* the plane masks read, used_lock_modifiers left as it was
ReadPlanes_no_lock(rb, read_buf_pos, additional_planes, planes, ulm) ==
  [planes |->
     [i \in DOMAIN planes |->
        IF i < additional_planes
        THEN [required_flags |-> RdW(rb, read_buf_pos + 8 * i),
              forbidden_flags |-> RdW(rb, read_buf_pos + 8 * i + 2),
              required_userflags |-> RdW(rb, read_buf_pos + 8 * i + 4),
              forbidden_userflags |-> RdW(rb, read_buf_pos + 8 * i + 6)]
        ELSE planes[i]],
   ulm |-> ulm]

\* the plane masks, four words per additional plane, and used_lock_modifiers
\* with the bits 0x70 of every required_flags or-ed in
ReadPlanes(rb, read_buf_pos, additional_planes, planes, ulm) ==
  LET req(i) == RdW(rb, read_buf_pos + 8 * i)
      lock(k) == IF ~TestBit(ulm, k)
                      /\ \E i \in 0..(additional_planes - 1) : TestBit(req(i), k)
                 THEN Pow2(k) ELSE 0
  IN  [planes |->
         [i \in DOMAIN planes |->
            IF i < additional_planes
            THEN [required_flags |-> req(i),
                  forbidden_flags |-> RdW(rb, read_buf_pos + 8 * i + 2),
                  required_userflags |-> RdW(rb, read_buf_pos + 8 * i + 4),
                  forbidden_userflags |-> RdW(rb, read_buf_pos + 8 * i + 6)]
            ELSE planes[i]],
       ulm |-> ulm + lock(4) + lock(5) + lock(6)]

\* the walk over the diacritics table at absolute position base: the number
\* of sub-tables and the offset i at which the walk ends.  ub: the walk read
\* outside read_buf.
RECURSIVE DiacriticsWalk(_, _, _, _)
DiacriticsWalk(rb, base, i, entries) ==
  IF i >= DIACRITICS_LEN THEN [i |-> i, entries |-> entries, ub |-> FALSE]
  ELSE IF base + i >= READ_BUF_LEN THEN [i |-> i, entries |-> entries, ub |-> TRUE]
  ELSE IF Rd(rb, base + i) = 0 THEN [i |-> i, entries |-> entries, ub |-> FALSE]
  ELSE IF base + i + 1 >= READ_BUF_LEN THEN [i |-> i, entries |-> entries, ub |-> TRUE]
  ELSE DiacriticsWalk(rb, base, i + Rd(rb, base + i + 1) * 2 + 2, entries + 1)

\* the copy loop: diacritics[j] = read_buf[base + j] for j in 0..i
DiacriticsCopy(dia, rb, base, i) ==
  [j \in 1..Max(Len(dia), i + 1) |->
     IF j <= i + 1 THEN Rd(rb, base + j - 1) ELSE dia[j]]

\* One pass of the loop over the entries of a key-table record, read_buf_pos
\* at its first entry.  st holds current_layout (cl), the largest read_buf
\* index read (mr) and the loop counter addmap.
AddMapping(st, rb, read_buf_pos, scan) ==
  LET addmap == st.addmap
      pair == TestBit(Rd(rb, read_buf_pos - 2), 7)
      charptr == read_buf_pos + addmap * (IF pair THEN 2 ELSE 1)
      k0 == Rd(rb, charptr)
      kchar == IF pair THEN k0 + 256 * Rd(rb, charptr + 1) ELSE k0
      row == scan * layout_pages
      cmd0 == ClearBit(TGet(st.cl, row + layout_pages - 2), addmap)
      cmd1 == IF TestBit(Rd(rb, read_buf_pos - 1), addmap)
              THEN SetBit(cmd0, addmap) ELSE cmd0
  IN  [cl |-> IF k0 # 0
              THEN TSet(TSet(st.cl, row + addmap, kchar),
                        row + layout_pages - 2, cmd1)
              ELSE st.cl,
       mr |-> Max(st.mr, IF k0 # 0 /\ pair THEN charptr + 1 ELSE charptr),
       addmap |-> addmap + 1]

\* the loop over the entries; it is cut at the first read outside read_buf
RECURSIVE AddMappings(_, _, _, _, _, _)
AddMappings(st, rb, read_buf_pos, scan, scan_length, additional_planes) ==
  IF st.addmap >= scan_length \/ st.addmap > additional_planes + 2
       \/ st.mr >= READ_BUF_LEN
  THEN st
  ELSE AddMappings(AddMapping(st, rb, read_buf_pos, scan), rb, read_buf_pos,
                   scan, scan_length, additional_planes)

\* the state of the key-table loop: current_layout, the largest read_buf index
\* read, ub (current_layout was written, or read_buf read, outside its array),
\* read_buf_pos, the count i of bytes consumed, done (the loop was left
\* by break) and wr (the index of current_layout the record writes when that
\* index is outside the array, else -1)
KeyTableState(cl, mr, ub, read_buf_pos, i, done) ==
  [cl |-> cl, mr |-> mr, ub |-> ub, read_buf_pos |-> read_buf_pos, i |-> i,
   done |-> done, wr |-> -1]

\* one pass of the key-table loop
KeyRecord(st, rb, additional_planes) ==
  LET read_buf_pos == st.read_buf_pos
      scan == Rd(rb, read_buf_pos)
      flags == Rd(rb, read_buf_pos + 1)
      scan_length == (flags % 8) + 1
      pos == read_buf_pos + 3
      row == scan * layout_pages
      step == IF TestBit(flags, 7) THEN scan_length * 2 ELSE scan_length
      \* the flag word of the row, once the entries a are in
      Flags(a, old) ==
        KeyTableState(
          TSet(a.cl, row + layout_pages - 1,
               BitOr(IF (flags % 8) > (old % 8) THEN flags % 8 ELSE old % 8,
                     BitAnd(BitOr(flags, old % 256), 240))),
          a.mr, FALSE, pos + step, st.i + 3 + step, FALSE)
      Mapped(a) == Flags(a, TGet(a.cl, row + layout_pages - 1))
  IN  IF read_buf_pos >= READ_BUF_LEN
      THEN KeyTableState(st.cl, Max(st.mr, read_buf_pos), TRUE, read_buf_pos,
                         st.i, TRUE)
      ELSE IF scan = 0
      THEN KeyTableState(st.cl, Max(st.mr, read_buf_pos), FALSE, read_buf_pos,
                         st.i, TRUE)
      ELSE IF (scan % 128) > MAX_SCAN_CODE
      THEN KeyTableState(st.cl, Max(st.mr, read_buf_pos + 1), FALSE,
                         pos + scan_length, st.i + 3 + scan_length, FALSE)
      ELSE IF row + layout_pages - 1 >= TABLE_LEN
      THEN [KeyTableState(st.cl, Max(st.mr, pos), TRUE, read_buf_pos, st.i,
                          TRUE)
              EXCEPT !.wr = row + layout_pages - 1]
      ELSE Mapped(AddMappings([cl |-> st.cl,
                               mr |-> Max(st.mr, read_buf_pos + 1),
                               addmap |-> 0],
                              rb, pos, scan, scan_length, additional_planes))

\* the key-table loop; i counts the bytes consumed against bytes_read
RECURSIVE KeyTable(_, _, _, _)
KeyTable(st, rb, bytes_read, additional_planes) ==
  IF st.done \/ st.mr >= READ_BUF_LEN \/ st.i >= bytes_read
  THEN st
  ELSE KeyTable(KeyRecord(st, rb, additional_planes), rb, bytes_read,
                additional_planes)

\* a - b in unsigned 32-bit arithmetic, for a, b < 2^31.  A wrapped result
\* 2^32 - (b - a) is beyond the integers of the checker; it stands as the
\* largest of them, which no loop counter of the parser reaches.
SubU32(a, b) == IF a >= b THEN a - b ELSE 2147483647

\* the state of the submapping loop: the layout, found_matching_layout, the
\* largest read_buf index read, halt, the loop variable as the loop condition
\* sees it, and done (the loop was left by break).  halt "hang": the loop
\* repeats a pass without changing anything, and never ends.
SubmapState(l, found, mr, halt, sub_map_in, done) ==
  [l |-> l, found |-> found, mr |-> mr, halt |-> halt,
   sub_map_in |-> sub_map_in, done |-> done]

\* the test that sets found_matching_layout
CodepageMatches_or_general(submap_cp, requested_codepage) ==
  submap_cp = requested_codepage \/ submap_cp = 0

CodepageMatches(submap_cp, requested_codepage) == submap_cp = requested_codepage

\* one pass of the submapping loop
Submapping(st, rb, size, P, submappings, specific_layout, requested_codepage) ==
  LET l == st.l
      sub_map == IF st.sub_map_in # 0 /\ specific_layout # -1
                 THEN specific_layout % 65536 ELSE st.sub_map_in
      d == P + 20 + sub_map * 8
      submap_cp == RdW(rb, d)
      found1 == st.found \/ CodepageMatches(submap_cp, requested_codepage)
      dia_offset == RdW(rb, d + 4)
      table_offset == RdW(rb, d + 2)
      read_buf_pos == P + table_offset
      \* the key table, with the diacritics l1 and the reads mr1 behind it
      Keys(l1, mr1, kt) ==
        IF table_offset = 0
        THEN IF st.sub_map_in # 0 /\ specific_layout # -1 /\ ~found1
                  /\ sub_map + 1 < submappings
             THEN SubmapState(l1, found1, mr1, "hang", sub_map, TRUE)
             ELSE SubmapState(l1, found1, mr1, "", sub_map + 1, FALSE)
        ELSE IF kt.wr >= TABLE_LEN
        THEN SubmapState(l1, found1, kt.mr, "ub_table", sub_map, TRUE)
        ELSE IF kt.ub \/ kt.mr >= READ_BUF_LEN
        THEN SubmapState(l1, found1, kt.mr, "ub", sub_map, TRUE)
        ELSE IF specific_layout = sub_map
        THEN SubmapState([l1 EXCEPT !.current_layout = kt.cl], found1, kt.mr,
                         "", sub_map, TRUE)
        ELSE SubmapState([l1 EXCEPT !.current_layout = kt.cl], found1, kt.mr,
                         "", sub_map + 1, FALSE)
      Table(l1, mr1) ==
        Keys(l1, mr1,
             KeyTable(KeyTableState(l1.current_layout, mr1, FALSE, read_buf_pos,
                                    0, FALSE),
                      rb, SubU32(size, read_buf_pos), l1.additional_planes))
      \* the diacritics table, w the walk over it
      Diacritics(w) ==
        IF dia_offset = 0
        THEN Table([l EXCEPT !.diacritics_entries = 0], Max(st.mr, d + 5))
        ELSE IF w.ub \/ P + dia_offset + w.i >= READ_BUF_LEN
        THEN SubmapState(l, found1, Max(st.mr, P + dia_offset + w.i), "ub",
                         sub_map, TRUE)
        ELSE IF w.i + 1 > DIACRITICS_LEN
        THEN SubmapState(l, found1, Max(st.mr, P + dia_offset + w.i),
                         "ub_diacritics", sub_map, TRUE)
        ELSE Table([l EXCEPT !.diacritics_entries = w.entries,
                             !.diacritics =
                                DiacriticsCopy(l.diacritics, rb, P + dia_offset,
                                               w.i)],
                   Max(st.mr, Max(d + 5, P + dia_offset + w.i)))
  IN  IF submap_cp # 0 /\ submap_cp # requested_codepage /\ specific_layout = -1
      THEN SubmapState(l, st.found, Max(st.mr, d + 1), "", sub_map + 1, FALSE)
      ELSE Diacritics(DiacriticsWalk(rb, P + dia_offset, 0, 0))

\* the submapping loop
RECURSIVE Submappings(_, _, _, _, _, _, _)
Submappings(st, rb, size, P, submappings, specific_layout, requested_codepage) ==
  IF st.done \/ ~(st.sub_map_in < submappings /\ ~st.found)
  THEN st
  ELSE Submappings(Submapping(st, rb, size, P, submappings, specific_layout,
                              requested_codepage),
                   rb, size, P, submappings, specific_layout,
                   requested_codepage)

\* additional_planes as read from the byte at P + 1: at most layout_pages - 4
ClampPlanes_off(ap_byte) == ap_byte

ClampPlanes(ap_byte) ==
  IF ap_byte > layout_pages - 4 THEN layout_pages - 4 ELSE ap_byte

\* read_keyboard_file from the byte that holds data_len on
ParseLayout(l, rb, size, start_pos0, specific_layout, requested_codepage, ndbg) ==
  LET data_len == Rd(rb, start_pos0)
      start_pos == start_pos0 + 1
      P == start_pos + data_len
      submappings == Rd(rb, P)
      ap == ClampPlanes(Rd(rb, P + 1))
      read_buf_pos == P + 20 + submappings * 8
      Parsed(sm) ==
        IF sm.halt # ""
        THEN [l |-> sm.l, rb |-> rb, ret |-> KEYB_NOERROR, halt |-> sm.halt,
              mr |-> sm.mr, size |-> size]
        ELSE IF sm.found
        THEN [l |-> [sm.l EXCEPT !.use_foreign_layout = TRUE], rb |-> rb,
              ret |-> KEYB_NOERROR, halt |-> "", mr |-> sm.mr, size |-> size]
        ELSE [l |-> reset(sm.l), rb |-> rb, ret |-> KEYB_LAYOUTNOTFOUND,
              halt |-> "", mr |-> sm.mr, size |-> size]
      Header(lc, pl) ==
        Parsed(Submappings(
                 SubmapState([l EXCEPT !.language_codes = lc.codes,
                                       !.language_code_count = Len(lc.codes),
                                       !.additional_planes = ap,
                                       !.current_layout_planes = pl.planes,
                                       !.used_lock_modifiers = pl.ulm],
                             FALSE,
                             Max(Max(lc.mr, P + 1),
                                 IF ap > 0 THEN read_buf_pos + 8 * ap - 1 ELSE 0),
                             "", 0, FALSE),
                 rb, size, P, submappings, specific_layout, requested_codepage))
  IN  IF data_len >= UINT8_MAX /\ ~ndbg
      THEN [l |-> l, rb |-> rb, ret |-> KEYB_NOERROR, halt |-> "assert",
            mr |-> start_pos0, size |-> size]
      ELSE Header(LangCodes(rb, start_pos, data_len, 0, <<>>, start_pos0),
                  ReadPlanes(rb, read_buf_pos, ap, l.current_layout_planes,
                             l.used_lock_modifiers))

\* keyboard_layout::read_keyboard_file(keyboard_file_name, specific_layout,
\* requested_codepage) on layout l with the static buffer rb.  Result: the
\* layout and the buffer afterwards, the return code, halt ("" when the call
\* returned), mr (the largest index of read_buf the parser read, -1: none) and
\* size (read_buf_size).
read_keyboard_file(l, rb, keyboard_file_name, specific_layout, requested_codepage, ndbg) ==
  LET l1 == IF specific_layout = -1
            THEN [reset(l) EXCEPT !.current_keyboard_file_name = keyboard_file_name]
            ELSE reset(l)
      Normalised(r) == [r EXCEPT !.l.current_layout = TNorm(@)]
      Opened(o) ==
        IF o.halt # "" \/ o.ret # KEYB_NOERROR
        THEN [l |-> l1, rb |-> o.rb, ret |-> o.ret, halt |-> o.halt,
              mr |-> -1, size |-> 0]
        ELSE Normalised(ParseLayout(l1, o.rb, o.size, o.start_pos,
                                    specific_layout, requested_codepage, ndbg))
  IN  IF CStr(keyboard_file_name) = N_none
      THEN [l |-> l1, rb |-> rb, ret |-> KEYB_NOERROR, halt |-> "",
            mr |-> -1, size |-> 0]
      ELSE Opened(OpenLayout(rb, keyboard_file_name, ndbg))

\* ------------------------------------------------------------------------
\* Key translation (keyboard_layout::map_key, keyboard_layout::layout_key)
\* ------------------------------------------------------------------------
\* diacritics[i]: a byte of the array that was written; reading outside the
\* array or a byte no load has written is undefined
DiaOk(l, i) == i >= 0 /\ i < Len(l.diacritics) /\ i < DIACRITICS_LEN

Dia(l, i) == IF DiaOk(l, i) THEN l.diacritics[i + 1] ELSE 0

\* for (i = 0; i < n; i++) diacritics_start += diacritics[diacritics_start+1]*2+2
RECURSIVE DiaStart(_, _, _)
DiaStart(l, n, start) ==
  IF n <= 0 THEN [start |-> start, ub |-> FALSE]
  ELSE IF ~DiaOk(l, start + 1) THEN [start |-> start, ub |-> TRUE]
  ELSE DiaStart(l, n - 1, (start + Dia(l, start + 1) * 2 + 2) % 65536)

\* a search that finds no pair
DiaSearch_none(l, start, len, i, ch) == [hit |-> -1, ub |-> FALSE]

\* the search of one sub-table for the character of the second key; the
\* result is the index of the matching pair, or -1
RECURSIVE DiaSearch(_, _, _, _, _)
DiaSearch(l, start, len, i, ch) ==
  IF i >= len THEN [hit |-> -1, ub |-> FALSE]
  ELSE IF ~DiaOk(l, start + i * 2) THEN [hit |-> -1, ub |-> TRUE]
  ELSE IF Dia(l, start + i * 2) = ch
  THEN [hit |-> i, ub |-> ~DiaOk(l, start + i * 2 + 1)]
  ELSE DiaSearch(l, start, len, i + 1, ch)

\* the byte without the scan code above it
KeyWord_no_scan(key, byte) == byte

\* (uint16_t)(key << 8) | byte
KeyWord(key, byte) == BitOr((key * 256) % 65536, byte)

\* kl_ret: what the KL parse of a switch-layout command returned (-1: none ran)
MapResult(l, rb, out, ret, halt) ==
  [l |-> l, rb |-> rb, out |-> out, ret |-> ret, halt |-> halt, kl_ret |-> -1]

\* the non-command branch of map_key
map_key_literal(l, rb, key, layouted_key, is_keypair) ==
  LET lit == IF is_keypair THEN layouted_key
             ELSE KeyWord(key, layouted_key % 256)
      dc  == l.diacritics_character
      l0  == [l EXCEPT !.diacritics_character = 0]
  IN  IF dc = 0 THEN MapResult(l, rb, <<lit>>, TRUE, "")
      ELSE IF dc - 200 >= l.diacritics_entries
      THEN MapResult(l0, rb, <<lit>>, TRUE, "")
      ELSE LET w == DiaStart(l, dc - 200, 0)
               diacritics_length == Dia(l, w.start + 1)
               diacritics_start == w.start + 2
               f == DiaSearch(l, diacritics_start, diacritics_length, 0,
                              layouted_key % 256)
           IN  IF w.ub \/ ~DiaOk(l, w.start + 1) \/ f.ub
               THEN MapResult(l0, rb, <<>>, TRUE, "ub_diacritics")
               ELSE IF f.hit >= 0
               THEN MapResult(l0, rb,
                      <<KeyWord(key, Dia(l, diacritics_start + f.hit * 2 + 1))>>,
                      TRUE, "")
               ELSE MapResult(l0, rb,
                      <<KeyWord(key, Dia(l, diacritics_start - 2)), lit>>,
                      TRUE, "")

\* keyboard_layout::map_key.  cp is dos.loaded_codepage at the call.
map_key(l, rb, key, layouted_key, is_command, is_keypair, cp, ndbg) ==
  LET key_command == layouted_key % 256
      Switched(r) ==
        [MapResult(r.l, r.rb, <<>>, TRUE, r.halt) EXCEPT !.kl_ret = r.ret]
  IN  IF ~is_command THEN map_key_literal(l, rb, key, layouted_key, is_keypair)
      ELSE IF key_command >= 200 /\ key_command < 235
      THEN MapResult([l EXCEPT !.diacritics_character =
                        IF key_command >= l.diacritics_entries + 200
                        THEN 0 ELSE key_command],
                     rb, <<>>, TRUE, "")
      ELSE IF key_command >= 120 /\ key_command < 140
      THEN IF CStr(l.current_keyboard_file_name) # N_none
           THEN Switched(read_keyboard_file(l, rb, l.current_keyboard_file_name,
                                            key_command - 119, cp, ndbg))
           ELSE MapResult(l, rb, <<>>, TRUE, "")
      ELSE IF key_command >= 180 /\ key_command < 188
      THEN MapResult([l EXCEPT !.user_keys =
                        ClearBit(l.user_keys, key_command - 180)],
                     rb, <<>>, TRUE, "")
      ELSE IF key_command >= 188 /\ key_command < 196
      THEN MapResult([l EXCEPT !.user_keys =
                        SetBit(l.user_keys, key_command - 188)],
                     rb, <<>>, TRUE, "")
      ELSE IF key_command = 160 THEN MapResult(l, rb, <<>>, TRUE, "")
      ELSE MapResult(l, rb, <<>>, FALSE, "")

\* the entry of plane p in the row of key, and the row's command and flag words
Entry(l, key, p) == TGet(l.current_layout, key * layout_pages + p)

CommandBits(l, key) == TGet(l.current_layout, key * layout_pages + layout_pages - 2)

FlagWord(l, key) == TGet(l.current_layout, key * layout_pages + layout_pages - 1)

\* what one dispatch of a table entry did: the map_key result, the entry and
\* its column in the row.  tried: the columns whose entries were given to
\* map_key during the call, in order.
Dispatched(m, entry, is_command, column) ==
  [l |-> m.l, rb |-> m.rb, out |-> m.out, ret |-> m.ret, halt |-> m.halt,
   disp |-> IF is_command THEN "command" ELSE "literal", entry |-> entry,
   kl_ret |-> m.kl_ret, tried |-> <<column>>]

NotDispatched(l, rb, out, ret) ==
  [l |-> l, rb |-> rb, out |-> out, ret |-> ret, halt |-> "",
   disp |-> "none", entry |-> 0, kl_ret |-> -1, tried |-> <<>>]

\* the scan codes of the state-changing keys
ModifierScans == {29, 42, 54, 56, 58, 69, 70}

\* a tail that drops the pending dead key and reports the key as handled
PendingDiacritic_silent(l, rb, key) ==
  IF l.diacritics_character = 0 \/ key \in ModifierScans
  THEN NotDispatched(l, rb, <<>>, FALSE)
  ELSE NotDispatched([l EXCEPT !.diacritics_character = 0], rb, <<>>, TRUE)

\* the tail of layout_key: a dead key is pending and no entry was dispatched
PendingDiacritic(l, rb, key) ==
  IF l.diacritics_character = 0 \/ key \in ModifierScans
  THEN NotDispatched(l, rb, <<>>, FALSE)
  ELSE IF l.diacritics_character >= l.diacritics_entries + 200
  THEN NotDispatched([l EXCEPT !.diacritics_character = 0], rb, <<>>, TRUE)
  ELSE LET w == DiaStart(l, l.diacritics_character - 200, 0)
       IN  IF w.ub \/ ~DiaOk(l, w.start)
           THEN [NotDispatched(l, rb, <<>>, FALSE) EXCEPT !.halt = "ub_diacritics"]
           ELSE NotDispatched([l EXCEPT !.diacritics_character = 0], rb,
                              <<KeyWord(key, Dia(l, w.start))>>, FALSE)

\* a plane scan that goes on to the next plane when the entry of a fitting
\* plane is zero
RECURSIVE PlaneScan_no_break(_, _, _, _, _, _, _, _)
PlaneScan_no_break(l, rb, key, current_flags, is_special_pair, cplane, cp, ndbg) ==
  LET pl == l.current_layout_planes[cplane]
      fits == /\ BitAnd(current_flags, pl.required_flags) = pl.required_flags
              /\ BitAnd(l.user_keys, pl.required_userflags) = pl.required_userflags
              /\ BitAnd(current_flags, pl.forbidden_flags) = 0
              /\ BitAnd(l.user_keys, pl.forbidden_userflags) = 0
      e == Entry(l, key, 2 + cplane)
      is_command == TestBit(CommandBits(l, key), cplane + 2)
      Rest == PlaneScan_no_break(l, rb, key, current_flags, is_special_pair,
                                 cplane + 1, cp, ndbg)
      Mapped(m) ==
        IF m.ret \/ m.halt # "" THEN Dispatched(m, e, is_command, 2 + cplane)
        ELSE [Rest EXCEPT !.tried = <<2 + cplane>> \o @]
  IN  IF cplane >= l.additional_planes THEN PendingDiacritic(l, rb, key)
      ELSE IF ~fits \/ e = 0 THEN Rest
      ELSE Mapped(map_key(l, rb, key, e, is_command, is_special_pair, cp, ndbg))

\* the plane scan of layout_key from plane cplane on
RECURSIVE PlaneScan(_, _, _, _, _, _, _, _)
PlaneScan(l, rb, key, current_flags, is_special_pair, cplane, cp, ndbg) ==
  LET pl == l.current_layout_planes[cplane]
      fits == /\ BitAnd(current_flags, pl.required_flags) = pl.required_flags
              /\ BitAnd(l.user_keys, pl.required_userflags) = pl.required_userflags
              /\ BitAnd(current_flags, pl.forbidden_flags) = 0
              /\ BitAnd(l.user_keys, pl.forbidden_userflags) = 0
      e == Entry(l, key, 2 + cplane)
      is_command == TestBit(CommandBits(l, key), cplane + 2)
      Mapped(m) ==
        IF m.ret \/ m.halt # "" THEN Dispatched(m, e, is_command, 2 + cplane)
        ELSE [PlaneScan(l, rb, key, current_flags, is_special_pair, cplane + 1,
                        cp, ndbg)
                EXCEPT !.tried = <<2 + cplane>> \o @]
  IN  IF cplane >= l.additional_planes THEN PendingDiacritic(l, rb, key)
      ELSE IF cplane > layout_pages - 5
      THEN [NotDispatched(l, rb, <<>>, FALSE) EXCEPT !.halt = "ub_planes"]
      ELSE IF ~fits
      THEN PlaneScan(l, rb, key, current_flags, is_special_pair, cplane + 1,
                     cp, ndbg)
      ELSE IF e = 0 THEN PendingDiacritic(l, rb, key)
      ELSE Mapped(map_key(l, rb, key, e, is_command, is_special_pair, cp, ndbg))

\* layout_key behind its two tests: the translation of a key through the
\* table of a foreign layout
layout_key_foreign(l, rb, key, flags1, flags2, flags3, cp, ndbg) ==
  LET is_special_pair == BitAnd(FlagWord(l, key), 128) = 128
      fast == BitAnd(BitAnd(flags1, l.used_lock_modifiers), 124) = 0
                /\ BitAnd(flags3, 2) = 0
      shift == BitXor(BitOr(BitAnd(flags1, 2) \div 2, BitAnd(flags1, 1)),
                      BitAnd(BitAnd(FlagWord(l, key), 64), BitAnd(flags1, 64)) \div 64) # 0
      p == IF shift THEN 1 ELSE 0
      e == Entry(l, key, p)
      is_command == TestBit(CommandBits(l, key), p)
      f13 == BitOr(BitAnd(flags2, 3), BitAnd(flags3, 12)) * 256
      current_flags ==
        BitOr(BitOr(BitOr(BitAnd(flags1, 127), f13 % 65536),
                    IF BitAnd(flags1, 3) # 0 THEN 16384 ELSE 0),
              IF BitAnd(flags3, 2) # 0 THEN 4096 ELSE 0)
      Planes == PlaneScan(l, rb, key, current_flags, is_special_pair, 0, cp, ndbg)
      Mapped(m) ==
        IF m.ret \/ m.halt # "" THEN Dispatched(m, e, is_command, p)
        ELSE [Planes EXCEPT !.tried = <<p>> \o @]
  IN  IF fast /\ e # 0
      THEN Mapped(map_key(l, rb, key, e, is_command, is_special_pair, cp, ndbg))
      ELSE Planes

\* layout_key without the test of use_foreign_layout
layout_key_no_foreign_test(l, rb, key, flags1, flags2, flags3, cp, ndbg) ==
  IF key > MAX_SCAN_CODE THEN NotDispatched(l, rb, <<>>, FALSE)
  ELSE layout_key_foreign(l, rb, key, flags1, flags2, flags3, cp, ndbg)

\* keyboard_layout::layout_key.  Result: the layout and the buffer afterwards,
\* out (the values handed to BIOS_AddKeyToBuffer, in order), ret, halt, and
\* disp/entry (the table entry whose map_key call returned true, if any).
layout_key(l, rb, key, flags1, flags2, flags3, cp, ndbg) ==
  IF key > MAX_SCAN_CODE THEN NotDispatched(l, rb, <<>>, FALSE)
  ELSE IF ~l.use_foreign_layout THEN NotDispatched(l, rb, <<>>, FALSE)
  ELSE layout_key_foreign(l, rb, key, flags1, flags2, flags3, cp, ndbg)

\* ------------------------------------------------------------------------
\* Code-page files (keyboard_layout::read_codepage_file)
\* ------------------------------------------------------------------------
\* A code-page file is held as its size, the function from the offsets of its
\* non-zero bytes to those bytes, and (for a UPX-packed file) the memory image
\* that running its unpacker leaves, in the same form.
CPI_BUF_LEN == 65536

SparseBytes(start, bytes) == [i \in start..(start + Len(bytes) - 1) |-> bytes[i - start + 1]]

\* a 32-bit little-endian value as four bytes
W32(x) == <<x % 256, (x \div 256) % 256, (x \div 65536) % 256, (x \div 16777216) % 256>>

\* one code-page entry header of 28 bytes at offset at: next pointer, device
\* type, code page, offset of the font data header
CpiEntry(at, next, device_type, cp, hdr) ==
  SparseBytes(at, W32(next) \o W16(device_type) \o Zeros(8) \o W16(cp)
                    \o Zeros(6) \o W32(hdr) \o <<0, 0>>)

\* a font data header at offset at: font type, number of fonts, length, and the
\* six-byte header of the first font (its height first)
CpiFontHeader(at, font_type, number_of_fonts, font_height) ==
  SparseBytes(at, W16(font_type) \o W16(number_of_fonts) \o <<0, 0>>
                    \o <<font_height, 8, 0, 0, 0, 1>>)

\* the image of a CPI file: code pages 850 (8-line font) and 866 (16-line font)
CPI_image ==
  SparseBytes(0, <<255, 70, 79, 78, 84>>) @@ SparseBytes(19, W32(23))
    @@ SparseBytes(23, W16(2))
    @@ CpiEntry(27, 2198, 1, 850, 55) @@ CpiFontHeader(55, 1, 1, 8)
    @@ CpiEntry(2200, 0, 1, 866, 2230) @@ CpiFontHeader(2230, 1, 1, 16)

CPI_ok == [size |-> 6400, at |-> CPI_image, unpacked |-> <<>>]

\* a CPI file whose entry for code page 850 points its font header outside
\* the buffer
CPI_bad ==
  [size |-> 100,
   at |-> SparseBytes(0, <<255, 70, 79, 78, 84>>) @@ SparseBytes(19, W32(23))
            @@ SparseBytes(23, W16(1)) @@ CpiEntry(27, 0, 1, 850, 131072),
   unpacked |-> <<>>]

\* a UPX-packed file: "UPX!" and version 13 at offset 10
CPX_ok ==
  [size |-> 2000,
   at |-> SparseBytes(0, <<77, 90>>) @@ SparseBytes(10, <<85, 80, 88, 33, 13>>),
   unpacked |-> CPI_image]

\* a UPX-packed file of 0xFE01 bytes
CPX_big == [CPX_ok EXCEPT !.size = 65025]

\* a file in the DR-DOS format (7F 'D' 'R' 'F' '_') that carries "UPX!" and
\* version 13 at offset 10
CPX_drdos ==
  [size |-> 2000,
   at |-> SparseBytes(0, <<127, 68, 82, 70, 95>>)
            @@ SparseBytes(10, <<85, 80, 88, 33, 13>>),
   unpacked |-> CPI_image]

\* a CPI file that declares 16 entries and holds two, which point to each
\* other: the first (code page 866, at 2200) points back to the entry of code
\* page 850 at 27, and that one forward to the first
CPI_back ==
  [size |-> 6400,
   at |-> SparseBytes(0, <<255, 70, 79, 78, 84>>) @@ SparseBytes(19, W32(2196))
            @@ SparseBytes(2196, W16(16))
            @@ CpiEntry(2200, 25, 1, 866, 2230) @@ CpiFontHeader(2230, 1, 1, 16)
            @@ CpiEntry(27, 2198, 1, 850, 55) @@ CpiFontHeader(55, 1, 1, 8),
   unpacked |-> <<>>]

\* a file of three bytes
CPI_short == [size |-> 3, at |-> SparseBytes(0, <<255, 70, 79>>), unpacked |-> <<>>]

N_ok_cpi == <<111, 107, 46, 99, 112, 105>>
N_bad_cpi == <<98, 97, 100, 46, 99, 112, 105>>
N_ok_cpx == <<111, 107, 46, 99, 112, 120>>
N_big_cpx == <<98, 105, 103, 46, 99, 112, 120>>
N_short_cpi == <<115, 46, 99, 112, 105>>
N_dr_cpi == <<100, 114, 46, 99, 112, 105>>
N_back_cpi == <<98, 97, 99, 107, 46, 99, 112, 105>>

\* the files of Z:\CPI, by name
CPIFiles ==
  (N_ok_cpi :> CPI_ok) @@ (N_bad_cpi :> CPI_bad) @@ (N_ok_cpx :> CPX_ok)
    @@ (N_big_cpx :> CPX_big) @@ (N_short_cpi :> CPI_short)
    @@ (N_dr_cpi :> CPX_drdos) @@ (N_back_cpi :> CPI_back)

\* keyboard_layout::get_CPX_file_id
CPXCodepages ==
  << {437, 850, 852, 853, 857, 858}, {775, 859, 1116, 1117, 1118, 1119},
     {771, 772, 808, 855, 866, 872}, {848, 849, 1125, 1131, 3012, 30010},
     {113, 737, 851, 869}, {899, 30008, 58210, 59829, 60258, 60853},
     {30011, 30013, 30014, 30017, 30018, 30019}, {770, 773, 774, 777, 778},
     {860, 861, 863, 865, 867}, {667, 668, 790, 991, 3845},
     {30000, 30001, 30004, 30007, 30009}, {30003, 30029, 30030, 58335},
     {895, 30002, 58152, 59234, 62306},
     {30006, 30012, 30015, 30016, 30020, 30021},
     {30023, 30024, 30025, 30026, 30027, 30028},
     {3021, 30005, 30022, 30031, 30032},
     {862, 864, 30034, 30033, 30039, 30040}, {856, 3846, 3848} >>

get_CPX_file_id(codepage_id) ==
  IF \E i \in 1..Len(CPXCodepages) : codepage_id \in CPXCodepages[i]
  THEN (CHOOSE i \in 1..Len(CPXCodepages) : codepage_id \in CPXCodepages[i]) - 1
  ELSE -1

\* FILE_EGA_CPX[i]: "EGA.CPX", "EGA2.CPX", ... "EGA18.CPX"
FILE_EGA_CPX(i) ==
  <<69, 71, 65>> \o (IF i = 0 THEN <<>> ELSE Decimal(i + 1)) \o <<46, 67, 80, 88>>

\* BLOB_EGA_CPX[i], the built-in packed code-page files
BLOB_EGA_CPX(i) == [size |-> 3000 + i, at |-> CPX_ok.at, unpacked |-> CPI_image]

\* OpenDosboxFile("Z:\CPI\<name>"), and with the last letter of the extension
\* switched between I and X when that fails
CpiNamed(x) == {k \in DOMAIN CPIFiles : LowerStr(k) = LowerStr(x)}

\* a file that could not be opened
NoFile == [size |-> -1, at |-> <<>>, unpacked |-> <<>>]

OpenCpiFile(cp_filename) ==
  LET n == Len(cp_filename)
      last == IF n = 0 THEN 0 ELSE cp_filename[n]
      alt == IF last \in {73, 105} THEN [cp_filename EXCEPT ![n] = 88]
             ELSE IF last \in {88, 120} THEN [cp_filename EXCEPT ![n] = 73]
             ELSE cp_filename
  IN  IF CpiNamed(cp_filename) # {}
      THEN CPIFiles[CHOOSE k \in CpiNamed(cp_filename) : TRUE]
      ELSE IF CpiNamed(alt) # {} THEN CPIFiles[CHOOSE k \in CpiNamed(alt) : TRUE]
      ELSE NoFile

\* byte i of a file or of a buffer
FileByte(f, i) == IF i \in DOMAIN f.at THEN f.at[i] ELSE 0

\* cpi_buf: init bytes are initialised, the image gives the non-zero ones
CpiBuf(init, image) == [init |-> init, at |-> image]

\* a 32-bit value is held as the integer of its two's complement reading
S32(b0, b1, b2, b3) ==
  b0 + 256 * b1 + 65536 * b2 + 16777216 * (IF b3 >= 128 THEN b3 - 256 ELSE b3)

\* x + k in 32-bit arithmetic, k small and not negative
AddU32(x, k) ==
  IF x > 2147483647 - k THEN (x - 2147483647) + (k - 1) - 2147483647 - 1
  ELSE x + k

\* host_read of n bytes at &cpi_buf.at(i) (checked is FALSE for cpi_buf[i]):
\* at() throws outside the array; bytes outside the array or never
\* initialised are undefined.
CpiRead(buf, i, n, checked) ==
  LET b0 == FileByte(buf, i)
      b1 == FileByte(buf, i + 1)
      b2 == FileByte(buf, i + 2)
      b3 == FileByte(buf, i + 3)
  IN  IF i < 0 \/ i >= CPI_BUF_LEN
      THEN [v |-> 0, halt |-> IF checked THEN "exception" ELSE "ub"]
      ELSE IF i + n - 1 >= CPI_BUF_LEN \/ i + n - 1 >= buf.init
      THEN [v |-> 0, halt |-> "ub"]
      ELSE [v |-> IF n = 1 THEN b0
                  ELSE IF n = 2 THEN b0 + 256 * b1
                  ELSE S32(b0, b1, b2, b3),
            halt |-> ""]

\* the font loop of one matching code-page entry.  heights: the font heights
\* copied to the ROM font areas so far.
RECURSIVE CpiFonts(_, _, _, _, _)
CpiFonts(buf, font_data_start, current_font, number_of_fonts, heights) ==
  IF current_font >= number_of_fonts THEN [heights |-> heights, halt |-> ""]
  ELSE
    LET h == CpiRead(buf, font_data_start, 1, TRUE)
        font_height == h.v
        data == AddU32(font_data_start, 6)
        bytes == font_height * 256
        last == AddU32(data, bytes - 1)
        loads == font_height \in {16, 14, 8}
    IN  IF h.halt # "" THEN [heights |-> heights, halt |-> h.halt]
        ELSE IF loads /\ (data < 0 \/ last < 0 \/ last >= CPI_BUF_LEN)
        THEN [heights |-> heights \cup {font_height}, halt |-> "exception"]
        ELSE IF loads /\ last >= buf.init
        THEN [heights |-> heights \cup {font_height}, halt |-> "ub"]
        ELSE CpiFonts(buf, AddU32(data, bytes), current_font + 1, number_of_fonts,
                      IF loads THEN heights \cup {font_height} ELSE heights)

\* dos.loaded_codepage after a matching entry was loaded
NewLoadedCodepage_keep(codepage_id, loaded_codepage) == loaded_codepage

NewLoadedCodepage(codepage_id, loaded_codepage) == codepage_id % 65536

CpResult(ret, loaded_codepage, font, halt, upx) ==
  [ret |-> ret, loaded_codepage |-> loaded_codepage, font |-> font,
   halt |-> halt, upx |-> upx, walked |-> 0, entries |-> 0]

\* the search of the code-page entries
RECURSIVE CpiSearch(_, _, _, _, _, _, _, _)
CpiSearch(buf, start_pos, test_codepage, number_of_codepages, codepage_id, loaded_codepage, font, upx) ==
  IF test_codepage >= number_of_codepages
  THEN CpResult(KEYB_INVALIDCPFILE, loaded_codepage, font, "", upx)
  ELSE
    LET Pass(r) == [r EXCEPT !.walked = @ + 1]
        device_type == CpiRead(buf, AddU32(start_pos, 4), 2, TRUE)
        font_codepage == CpiRead(buf, AddU32(start_pos, 14), 2, TRUE)
        font_data_header_pt == CpiRead(buf, AddU32(start_pos, 22), 4, TRUE)
        font_type == CpiRead(buf, font_data_header_pt.v, 2, TRUE)
        number_of_fonts == CpiRead(buf, AddU32(font_data_header_pt.v, 2), 2, TRUE)
        fonts == CpiFonts(buf, AddU32(font_data_header_pt.v, 6), 0,
                          number_of_fonts.v, {})
        next == CpiRead(buf, start_pos, 4, TRUE)
    IN  Pass(
        IF device_type.halt # "" THEN CpResult(KEYB_NOERROR, loaded_codepage, font, device_type.halt, upx)
        ELSE IF font_codepage.halt # "" THEN CpResult(KEYB_NOERROR, loaded_codepage, font, font_codepage.halt, upx)
        ELSE IF font_data_header_pt.halt # "" THEN CpResult(KEYB_NOERROR, loaded_codepage, font, font_data_header_pt.halt, upx)
        ELSE IF font_type.halt # "" THEN CpResult(KEYB_NOERROR, loaded_codepage, font, font_type.halt, upx)
        ELSE IF device_type.v = 1 /\ font_type.v = 1
                  /\ font_codepage.v = codepage_id
        THEN IF number_of_fonts.halt # "" THEN CpResult(KEYB_NOERROR, loaded_codepage, font, number_of_fonts.halt, upx)
             ELSE IF fonts.halt # ""
             THEN CpResult(KEYB_NOERROR, loaded_codepage,
                           IF fonts.heights = {} THEN font
                           ELSE [cp |-> codepage_id, heights |-> fonts.heights],
                           fonts.halt, upx)
             ELSE CpResult(KEYB_NOERROR,
                           NewLoadedCodepage(codepage_id, loaded_codepage),
                           IF fonts.heights = {} THEN font
                           ELSE [cp |-> codepage_id, heights |-> fonts.heights],
                           "", upx)
        ELSE IF next.halt # "" THEN CpResult(KEYB_NOERROR, loaded_codepage, font, next.halt, upx)
        ELSE CpiSearch(buf, AddU32(next.v, 2), test_codepage + 1,
                       number_of_codepages, codepage_id, loaded_codepage, font, upx))

\* a decompression step that leaves the registers as the unpacker had them
UnpackFrame_no_restore(upx, r, mem) ==
  IF upx
  THEN [regs |-> [ds |-> 4096, es |-> 4096, ss |-> 8192, esp |-> 65534],
        dos_mem |-> mem, allocs |-> 1, frees |-> 1]
  ELSE [regs |-> r, dos_mem |-> mem, allocs |-> 0, frees |-> 0]

\* What a code-page load does to the registers r and the allocated DOS blocks
\* mem: nothing unless the decompression step runs (upx).  In the step a block of 0x1500 paragraphs is allocated at seg, DS, ES, SS and ESP
\* are saved, set to seg, seg, seg + 0x1000 and 0xFFFE for the far call to
\* seg:0x100, which may leave any values in them, and restored from the
\* saved values; then the block is freed.  Result: the registers and the
\* blocks afterwards and the numbers of blocks allocated and freed.
UnpackFrame(upx, r, mem) ==
  LET seg == 4096
      save == [ds |-> r.ds, es |-> r.es, ss |-> r.ss, esp |-> r.esp]
      entered == [ds |-> seg, es |-> seg, ss |-> (seg + 4096) % 65536,
                  esp |-> 65534]
      held == mem \cup {seg}
  IN  IF upx
      THEN [regs |-> [entered EXCEPT !.ds = save.ds, !.es = save.es,
                                     !.ss = save.ss, !.esp = save.esp],
            dos_mem |-> held \ {seg}, allocs |-> 1, frees |-> 1]
      ELSE [regs |-> r, dos_mem |-> mem, allocs |-> 0, frees |-> 0]

\* the position of "UPX!" in the 100 bytes read from file offset 5 on, or -1
UpxIdPos(f) ==
  LET hits == {q \in 0..96 : /\ FileByte(f, 5 + q) = 85
                             /\ FileByte(f, 6 + q) = 80
                             /\ FileByte(f, 7 + q) = 88
                             /\ FileByte(f, 8 + q) = 33}
  IN  IF hits = {} THEN -1 ELSE CHOOSE q \in hits : \A r \in hits : q <= r

\* the decompression step and the search that follows.  lowmem: whether
\* DOS_AllocateMemory finds 0x1500 paragraphs.
CpiUnpackAndSearch(f, cpi_buf_size, size_of_cpxdata, upxfound, codepage_id, loaded_codepage, font, lowmem) ==
  LET buf == IF upxfound THEN CpiBuf(CPI_BUF_LEN, f.unpacked)
             ELSE CpiBuf(cpi_buf_size, f.at)
      size == IF upxfound THEN CPI_BUF_LEN ELSE cpi_buf_size
      sp == CpiRead(buf, 19, 4, FALSE)
      n == CpiRead(buf, sp.v, 2, TRUE)
  IN  IF upxfound /\ size_of_cpxdata > 65024
      THEN CpResult(KEYB_NOERROR, loaded_codepage, font, "exit", FALSE)
      ELSE IF upxfound /\ ~lowmem
      THEN CpResult(KEYB_NOERROR, loaded_codepage, font, "exit", FALSE)
      ELSE IF sp.halt # ""
      THEN CpResult(KEYB_NOERROR, loaded_codepage, font, sp.halt, upxfound)
      ELSE IF sp.v < 0 \/ sp.v >= size
      THEN CpResult(KEYB_INVALIDCPFILE, loaded_codepage, font, "", upxfound)
      ELSE IF n.halt # ""
      THEN CpResult(KEYB_NOERROR, loaded_codepage, font, n.halt, upxfound)
      ELSE [CpiSearch(buf, AddU32(sp.v, 4), 0, n.v, codepage_id,
                      loaded_codepage, font, upxfound)
              EXCEPT !.entries = n.v]

\* keyboard_layout::read_codepage_file.  Result: the return code, the value of
\* dos.loaded_codepage and the ROM font state afterwards, halt ("" when the
\* call returned, "exit" for E_Exit, "exception" for a throwing at()),
\* upx (the unpacker ran), entries (number_of_codepages, 0 when the search
\* was not reached) and walked (the passes of the search loop).
read_codepage_file(codepage_file_name, codepage_id, loaded_codepage, font, lowmem) ==
  LET i == get_CPX_file_id(codepage_id)
      auto == CStr(codepage_file_name) = N_auto
      Result(ret, halt) == CpResult(ret, loaded_codepage, font, halt, FALSE)
      Search(f, cpi_buf_size, size_of_cpxdata, upxfound) ==
        CpiUnpackAndSearch(f, cpi_buf_size, size_of_cpxdata, upxfound,
                           codepage_id, loaded_codepage, font, lowmem)
      Packed(f, q) ==
        IF q < 0 THEN Result(KEYB_INVALIDCPFILE, "")
        ELSE IF q + 4 >= 100 THEN Result(KEYB_NOERROR, "ub")
        ELSE IF FileByte(f, 5 + q + 4) < 10 THEN Result(KEYB_INVALIDCPFILE, "")
        ELSE Search(f, 0,
                    IF f.size <= CPI_BUF_LEN THEN f.size ELSE CPI_BUF_LEN,
                    TRUE)
      Builtin(f) == Search(f, f.size, f.size, TRUE)
      Opened(f) ==
        IF f = NoFile
        THEN IF i < 0 THEN Result(KEYB_INVALIDCPFILE, "")
             ELSE Builtin(BLOB_EGA_CPX(i))
        ELSE IF f.size < 5 THEN Result(KEYB_INVALIDCPFILE, "")
        ELSE IF FileByte(f, 0) = 255 /\ FileByte(f, 1) = 70 /\ FileByte(f, 2) = 79
                  /\ FileByte(f, 3) = 78 /\ FileByte(f, 4) = 84
        THEN Search(f, IF f.size <= CPI_BUF_LEN THEN f.size ELSE CPI_BUF_LEN,
                    0, FALSE)
        ELSE IF FileByte(f, 0) = 127 /\ FileByte(f, 1) # 68 /\ FileByte(f, 2) # 82
                  /\ FileByte(f, 3) # 70 /\ FileByte(f, 4) # 95
        THEN Result(KEYB_INVALIDCPFILE, "")
        ELSE IF f.size - 5 < 100 THEN Result(KEYB_INVALIDCPFILE, "")
        ELSE Packed(f, UpxIdPos(f))
  IN  IF CStr(codepage_file_name) = N_none THEN Result(KEYB_NOERROR, "")
      ELSE IF codepage_id = loaded_codepage THEN Result(KEYB_NOERROR, "")
      ELSE IF auto /\ i < 0 THEN Result(KEYB_INVALIDCPFILE, "")
      ELSE Opened(OpenCpiFile(IF auto /\ i >= 0 THEN FILE_EGA_CPX(i)
                              ELSE CStr(codepage_file_name)))

\* ------------------------------------------------------------------------
\* keyboard_layout::extract_codepage
\* ------------------------------------------------------------------------
\* the first submapping with a code page other than 0, else 437
RECURSIVE ExtractSubmaps(_, _, _, _, _)
ExtractSubmaps(xb, start_pos, sub_map, submappings, mr) ==
  IF sub_map >= submappings THEN [cp |-> 437, mr |-> mr]
  ELSE LET submap_cp == RdW(xb, start_pos + 20 + sub_map * 8)
           mr1 == Max(mr, start_pos + 20 + sub_map * 8 + 1)
       IN  IF submap_cp # 0 THEN [cp |-> submap_cp, mr |-> mr1]
           ELSE ExtractSubmaps(xb, start_pos, sub_map + 1, submappings, mr1)

\* xb is the static read buffer of extract_codepage.  Result: the code page,
\* the buffer afterwards, halt, mr and size as for read_keyboard_file.
extract_codepage(xb, keyboard_file_name, ndbg) ==
  LET Found(o, e) ==
        [cp |-> e.cp, xb |-> o.rb, halt |-> "", mr |-> e.mr, size |-> o.size]
      Header(o, start_pos) ==
        Found(o, ExtractSubmaps(o.rb, start_pos, 0, Rd(o.rb, start_pos), start_pos))
      Opened(o) ==
        IF o.halt # "" \/ o.ret # KEYB_NOERROR
        THEN [cp |-> 437, xb |-> o.rb, halt |-> o.halt, mr |-> -1, size |-> 0]
        ELSE Header(o, o.start_pos + 1 + Rd(o.rb, o.start_pos))
  IN  IF CStr(keyboard_file_name) = N_none
      THEN [cp |-> 437, xb |-> xb, halt |-> "", mr |-> -1, size |-> 0]
      ELSE Opened(OpenLayout(xb, keyboard_file_name, ndbg))

\* ------------------------------------------------------------------------
\* keyboard_layout::switch_keyboard_layout
\* ------------------------------------------------------------------------
\* no language code is found
LanguageCodeFound_never(l, tbuf) == FALSE

\* strncasecmp(tbuf, language_codes[i], newlen) == 0 for some i
LanguageCodeFound(l, tbuf) ==
  \E i \in 1..l.language_code_count :
     StrNCaseEq(tbuf, l.language_codes[i], Len(tbuf))

\* no layout object (a NULL pointer)
NULL == [null |-> TRUE]

SwitchResult(l, created, ret, rb, xb, loaded_codepage, font, halt, kl_ret, cp_tried, kl_cp) ==
  [l |-> l, created |-> created, ret |-> ret, rb |-> rb, xb |-> xb,
   loaded_codepage |-> loaded_codepage, font |-> font, halt |-> halt,
   kl_ret |-> kl_ret, cp_tried |-> cp_tried, kl_cp |-> kl_cp,
   cpi |-> [upx |-> FALSE, walked |-> 0, entries |-> 0]]

\* Result: l (this layout afterwards), created (created_layout, or NULL),
\* ret, both read buffers, dos.loaded_codepage and the font state afterwards,
\* halt, kl_ret (what the KL parse returned, -1: none ran), cp_tried (a
\* code-page load ran) and kl_cp (req_codepage as given to the KL parse, -1:
\* none ran).
switch_keyboard_layout(l, rb, xb, new_layout, loaded_codepage, font, lowmem, ndbg) ==
  LET tbuf == CStr(new_layout)
      Searched(r, c) ==
        [r EXCEPT !.cpi = [upx |-> c.upx, walked |-> c.walked,
                            entries |-> c.entries]]
      CodePage(x, k, c) ==
        IF c.halt # "" \/ c.ret # KEYB_NOERROR
        THEN Searched(SwitchResult(l, NULL, c.ret, k.rb, x.xb,
                                   c.loaded_codepage, c.font, c.halt, k.ret,
                                   TRUE, x.cp), c)
        ELSE Searched(SwitchResult(l, k.l, KEYB_NOERROR, k.rb, x.xb,
                                   c.loaded_codepage, c.font, "", k.ret, TRUE,
                                   x.cp), c)
      Layout(x, k) ==
        IF k.halt # "" \/ k.ret # KEYB_NOERROR
        THEN SwitchResult(l, NULL, k.ret, k.rb, x.xb, loaded_codepage, font,
                          k.halt, k.ret, FALSE, x.cp)
        ELSE CodePage(x, k, read_codepage_file(N_auto, x.cp, loaded_codepage,
                                               font, lowmem))
      Extracted(x) ==
        IF x.halt # ""
        THEN SwitchResult(l, NULL, KEYB_NOERROR, rb, x.xb, loaded_codepage, font,
                          x.halt, -1, FALSE, -1)
        ELSE Layout(x, read_keyboard_file(keyboard_layout, rb, tbuf, -1, x.cp,
                                          ndbg))
  IN  IF StrNCaseEq(tbuf, N_US, 2)
      THEN SwitchResult(IF l.use_foreign_layout
                        THEN [l EXCEPT !.use_foreign_layout = FALSE,
                                       !.diacritics_character = 0]
                        ELSE l,
                        NULL, KEYB_NOERROR, rb, xb, loaded_codepage, font, "",
                        -1, FALSE, -1)
      ELSE IF LanguageCodeFound(l, tbuf)
      THEN SwitchResult(IF ~l.use_foreign_layout
                        THEN [l EXCEPT !.use_foreign_layout = TRUE,
                                       !.diacritics_character = 0]
                        ELSE l,
                        NULL, KEYB_NOERROR, rb, xb, loaded_codepage, font, "",
                        -1, FALSE, -1)
      ELSE Extracted(extract_codepage(xb, tbuf, ndbg))

\* keyboard_layout::get_layout_name: the name, or NULL for the default layout
get_layout_name_always(l) == [null |-> FALSE, name |-> l.current_keyboard_file_name]

\* the name whatever use_foreign_layout is
get_layout_name_unless_none(l) ==
  IF CStr(l.current_keyboard_file_name) # N_none
  THEN [null |-> FALSE, name |-> l.current_keyboard_file_name]
  ELSE NULL

get_layout_name(l) ==
  IF l.use_foreign_layout /\ CStr(l.current_keyboard_file_name) # N_none
  THEN [null |-> FALSE, name |-> l.current_keyboard_file_name]
  ELSE NULL

\* ------------------------------------------------------------------------
\* The session: the module's statics and its entry points
\* ------------------------------------------------------------------------
VARIABLES
  loaded_layout,    \* static keyboard_layout* loaded_layout (NULL or the object)
  loaded_codepage,  \* dos.loaded_codepage
  read_buf,         \* the static read_buf of read_keyboard_file
  extract_buf,      \* the static read_buf of extract_codepage
  font,             \* what the ROM font areas hold: code page, heights loaded
  ndebug,           \* the build: TRUE when assert() is compiled out
  halted,           \* "" while the program runs, else how it stopped
  calls,            \* the number of entry-point calls made so far
  regs,             \* the segment registers DS, ES, SS and ESP of the CPU
  dos_mem,          \* the segments of the allocated DOS memory blocks
  last              \* the last entry-point call and what it did

vars == <<loaded_layout, loaded_codepage, read_buf, extract_buf, font, ndebug,
          halted, calls, regs, dos_mem, last>>

\* the number of entry-point calls of one session
MaxCalls == 2

\* the ROM fonts as the machine starts with them
RomFont == [cp |-> 437, heights |-> {}]

\* the record of a call: op, the return value, the values enqueued in the key
\* buffer, the table entry dispatched, the scan code, the largest read_buf
\* index the KL parser read and the number of bytes it had loaded, what the
\* KL parse returned (-1: none ran), whether a code-page load ran, and the
\* value diacritics_character had when the call was made, the layout name the
\* call was given (<<>>: none), the code page its KL parse was asked for
\* (-1: no parse ran) and the code-page file name its code-page load was given;
\* for the destructor also CurMode->type == M_TEXT and dos.loaded_codepage as
\* it found them; for a key call also flags1, flags2, flags3 and the value
\* user_keys had when the call was made, and the columns of the key's row
\* whose entries were given to map_key; for the name query what it returned;
\* for a switch the value loaded_layout had when the call was made; for a
\* call that loads a code page what the search of the code-page file did
\* (cpi) and the numbers of DOS memory blocks the call allocated and freed
\* (frame)
Call(op, ret, out, disp, entry, key, mr, size, kl_ret, cp_tried, pending, name, kl_cp, cp_file) ==
  [op |-> op, ret |-> ret, out |-> out, disp |-> disp, entry |-> entry,
   key |-> key, mr |-> mr, size |-> size, kl_ret |-> kl_ret,
   cp_tried |-> cp_tried, pending |-> pending, name |-> name, kl_cp |-> kl_cp,
   cp_file |-> cp_file, text_mode |-> FALSE, cp_before |-> -1,
   flags |-> <<0, 0, 0>>, user_keys |-> 0, query |-> NULL, tried |-> <<>>,
   before |-> NULL, cpi |-> [upx |-> FALSE, walked |-> 0, entries |-> 0],
   frame |-> <<0, 0>>]

\* the layout names of the configuration and of the calls
ConfigLayouts == {N_none, N_gr, N_fr, N_ct, N_xx, N_pl, N_zz, N_lk}

\* DOS_KeyboardLayout::DOS_KeyboardLayout with keyboardlayout = layoutname
\* (the branch of the systems other than Windows)
DOS_KeyboardLayout(layoutname, lowmem, ndbg) ==
  LET Started(l, cp, rb, xb, f, halt, ret, mr, size, kl_ret, cp_tried) ==
        [loaded_layout |-> l, loaded_codepage |-> cp, read_buf |-> rb,
         extract_buf |-> xb, font |-> f, halted |-> halt,
         last |-> Call("init", ret, <<>>, "none", 0, 0, mr, size, kl_ret,
                       cp_tried, 0, layoutname,
                       IF kl_ret = -1 THEN -1 ELSE cp, N_auto)]
      Searched(r, c) ==
        [r EXCEPT !.last.cpi = [upx |-> c.upx, walked |-> c.walked,
                                 entries |-> c.entries]]
      Layout(x, c, k) ==
        Searched(Started(k.l, c.loaded_codepage, k.rb, x.xb, c.font, k.halt,
                         IF k.halt = "" THEN k.ret ELSE 0, k.mr, k.size, k.ret,
                         TRUE), c)
      CodePage(x, c) ==
        IF c.halt # ""
        THEN Searched(Started(keyboard_layout, c.loaded_codepage, <<>>, x.xb,
                              c.font, c.halt, 0, -1, 0, -1, TRUE), c)
        ELSE Layout(x, c, read_keyboard_file(keyboard_layout, <<>>, layoutname,
                                             -1, c.loaded_codepage, ndbg))
      Extracted(x) ==
        IF x.halt # ""
        THEN Started(keyboard_layout, 437, <<>>, x.xb, RomFont, x.halt, 0, -1, 0,
                     -1, FALSE)
        ELSE CodePage(x, read_codepage_file(N_auto, x.cp, 437, RomFont, lowmem))
  IN  Extracted(extract_codepage(<<>>, layoutname, ndbg))

Init ==
  \E layoutname \in ConfigLayouts, lowmem \in BOOLEAN, ndbg \in {TRUE} :
    \E m \in {DOS_KeyboardLayout(layoutname, lowmem, ndbg)} :
        /\ loaded_layout = m.loaded_layout
        /\ loaded_codepage = m.loaded_codepage
        /\ read_buf = m.read_buf
        /\ extract_buf = m.extract_buf
        /\ font = m.font
        /\ ndebug = ndbg
        /\ halted = m.halted
        /\ calls = 0
        /\ \E u \in {UnpackFrame(m.last.cpi.upx,
                              [ds |-> 256, es |-> 512, ss |-> 768, esp |-> 1024],
                              {})} :
              /\ regs = u.regs
              /\ dos_mem = u.dos_mem
              /\ last = [m.last EXCEPT !.frame = <<u.allocs, u.frees>>]

LoadResult(l, k, ret, cp, f, halt, cp_tried) ==
  [l |-> l, ret |-> ret, rb |-> k.rb, loaded_codepage |-> cp, font |-> f,
   halt |-> halt, mr |-> k.mr, size |-> k.size, kl_ret |-> k.ret,
   cp_tried |-> cp_tried, cpi |-> [upx |-> FALSE, walked |-> 0, entries |-> 0]]

\* DOS_LoadKeyboardLayout.  Result: as for switch_keyboard_layout, with l the
\* value of loaded_layout afterwards and mr, size of the KL parse.
DOS_LoadKeyboardLayout(ll, rb, layoutname, codepage, codepagefile, cp_loaded, fnt, lowmem, ndbg) ==
  LET Searched(r, c) ==
        [r EXCEPT !.cpi = [upx |-> c.upx, walked |-> c.walked,
                            entries |-> c.entries]]
      CodePage(k, c) ==
        IF c.halt # "" \/ c.ret # KEYB_NOERROR
        THEN Searched(LoadResult(ll, k, c.ret, c.loaded_codepage, c.font,
                                 c.halt, TRUE), c)
        ELSE Searched(LoadResult(k.l, k, KEYB_NOERROR, c.loaded_codepage,
                                 c.font, "", TRUE), c)
      Layout(k) ==
        IF k.halt # "" \/ k.ret # KEYB_NOERROR
        THEN LoadResult(ll, k, k.ret, cp_loaded, fnt, k.halt, FALSE)
        ELSE CodePage(k, read_codepage_file(codepagefile, codepage, cp_loaded,
                                            fnt, lowmem))
  IN  Layout(read_keyboard_file(keyboard_layout, rb, layoutname, -1, codepage,
                                ndbg))

\* the arguments of the calls of DOS_LoadKeyboardLayout: layout name, code
\* page, code-page file, and whether low memory is free
LoadInputs ==
  { <<N_gr, 437, N_none, TRUE>>, <<N_gr, 850, N_auto, TRUE>>,
    <<N_gr, 850, N_auto, FALSE>>, <<N_gr, 850, N_bad_cpi, TRUE>>,
    <<N_gr, 850, N_big_cpx, TRUE>>, <<N_gr, 850, N_short_cpi, TRUE>>,
    <<N_gr, 866, N_ok_cpi, TRUE>>, <<N_fr, 437, N_none, TRUE>>,
    <<N_gr, 850, N_dr_cpi, TRUE>>, <<N_gr, 850, N_back_cpi, TRUE>>,
    <<N_ct, 437, N_none, TRUE>>, <<N_ov, 437, N_none, TRUE>>,
    <<N_zz, 437, N_none, TRUE>>, <<N_xx, 437, N_none, TRUE>>,
    <<N_ap, 437, N_none, TRUE>>, <<N_kc, 437, N_none, TRUE>>,
    <<N_kd, 437, N_none, TRUE>>,
    <<N_mx, 437, N_none, TRUE>>, <<N_mx, 850, N_none, TRUE>>,
    <<N_mx, 866, N_none, TRUE>>, <<N_mx, 852, N_none, TRUE>>,
    <<N_pl, 999, N_back_cpi, TRUE>>, <<N_pl, 999, N_ok_cpx, TRUE>>,
    <<N_none, 437, N_none, TRUE>> }

Load(layoutname, codepage, codepagefile, lowmem) ==
  /\ halted = ""
  /\ calls < MaxCalls
  /\ calls' = calls + 1
  /\ \E r \in {DOS_LoadKeyboardLayout(loaded_layout, read_buf, layoutname,
                                      codepage, codepagefile, loaded_codepage,
                                      font, lowmem, ndebug)} :
         /\ loaded_layout' = r.l
         /\ loaded_codepage' = r.loaded_codepage
         /\ read_buf' = r.rb
         /\ font' = r.font
         /\ halted' = r.halt
         /\ \E u \in {UnpackFrame(r.cpi.upx, regs, dos_mem)} :
               /\ regs' = u.regs
               /\ dos_mem' = u.dos_mem
               /\ last' = [Call("load", IF r.halt = "" THEN r.ret ELSE 0,
                                 <<>>, "none", 0, 0, r.mr, r.size, r.kl_ret,
                                 r.cp_tried, 0, layoutname, codepage,
                                 codepagefile)
                              EXCEPT !.cpi = r.cpi,
                                     !.frame = <<u.allocs, u.frees>>]
  /\ UNCHANGED <<extract_buf, ndebug>>

\* DOS_SwitchKeyboardLayout
DOS_SwitchKeyboardLayout(ll, rb, xb, new_layout, cp_loaded, fnt, lowmem, ndbg) ==
  LET Switched(r) ==
        IF r.created # NULL /\ r.halt = "" THEN [r EXCEPT !.l = r.created]
        ELSE r
  IN  IF ll = NULL
      THEN SwitchResult(ll, NULL, 255, rb, xb, cp_loaded, fnt, "", -1, FALSE, -1)
      ELSE Switched(switch_keyboard_layout(ll, rb, xb, new_layout, cp_loaded,
                                           fnt, lowmem, ndbg))

\* the arguments of the calls of DOS_SwitchKeyboardLayout
SwitchInputs ==
  { <<N_US, TRUE>>, <<N_us, TRUE>>, <<N_Usx, TRUE>>, <<N_gr, TRUE>>,
    <<N_de, TRUE>>,
    <<N_g, TRUE>>, <<N_fr, TRUE>>, <<N_fr, FALSE>>, <<N_pl, TRUE>>,
    <<N_xx, TRUE>>, <<N_ct, TRUE>> }

Switch(new_layout, lowmem) ==
  /\ halted = ""
  /\ calls < MaxCalls
  /\ calls' = calls + 1
  /\ \E r \in {DOS_SwitchKeyboardLayout(loaded_layout, read_buf, extract_buf,
                                        new_layout, loaded_codepage, font,
                                        lowmem, ndebug)} :
         /\ loaded_layout' = r.l
         /\ loaded_codepage' = r.loaded_codepage
         /\ read_buf' = r.rb
         /\ extract_buf' = r.xb
         /\ font' = r.font
         /\ halted' = r.halt
         /\ \E u \in {UnpackFrame(r.cpi.upx, regs, dos_mem)} :
               /\ regs' = u.regs
               /\ dos_mem' = u.dos_mem
               /\ last' = [Call("switch", IF r.halt = "" THEN r.ret ELSE 0,
                                 <<>>, "none", 0, 0, -1, 0, r.kl_ret,
                                 r.cp_tried, 0, new_layout, r.kl_cp, N_auto)
                              EXCEPT !.before = loaded_layout,
                                     !.cpi = r.cpi,
                                     !.frame = <<u.allocs, u.frees>>]
  /\ UNCHANGED ndebug

\* DOS_LayoutKey
DOS_LayoutKey(ll, rb, key, flags1, flags2, flags3, cp, ndbg) ==
  IF ll # NULL THEN layout_key(ll, rb, key, flags1, flags2, flags3, cp, ndbg)
  ELSE NotDispatched(ll, rb, <<>>, FALSE)

\* DOS_GetLoadedLayout
DOS_GetLoadedLayout(ll) == IF ll # NULL THEN get_layout_name(ll) ELSE NULL

\* the scan codes and the flag bytes of the calls of DOS_LayoutKey
KeyInputs ==
  { <<16, 0, 0, 0>>, <<16, 2, 0, 0>>, <<18, 0, 0, 0>>, <<18, 8, 0, 0>>,
    <<26, 0, 0, 0>>, <<26, 2, 0, 0>>, <<30, 0, 0, 0>>, <<30, 2, 0, 0>>,
    <<41, 0, 0, 0>>, <<43, 0, 0, 0>>, <<44, 0, 0, 0>>, <<56, 0, 0, 0>>,
    <<58, 0, 0, 0>>, <<42, 0, 0, 0>>, <<48, 0, 0, 0>>, <<89, 0, 0, 0>>,
    <<16, 64, 0, 0>>, <<16, 66, 0, 0>>, <<16, 1, 0, 0>>, <<16, 0, 0, 2>>,
    <<17, 0, 0, 0>>, <<18, 4, 0, 0>>, <<30, 72, 0, 0>>, <<43, 2, 0, 0>>,
    <<41, 2, 0, 0>> }

LayoutKey(key, flags1, flags2, flags3) ==
  /\ halted = ""
  /\ calls < MaxCalls
  /\ calls' = calls + 1
  /\ \E r \in {DOS_LayoutKey(loaded_layout, read_buf, key, flags1, flags2,
                             flags3, loaded_codepage, ndebug)} :
         /\ loaded_layout' = r.l
         /\ read_buf' = r.rb
         /\ halted' = r.halt
         /\ last' = [Call("key", r.ret, r.out, r.disp, r.entry, key, -1, 0,
                          r.kl_ret, FALSE,
                          IF loaded_layout = NULL THEN 0
                          ELSE loaded_layout.diacritics_character,
                          <<>>, -1, <<>>)
                       EXCEPT !.flags = <<flags1, flags2, flags3>>,
                              !.tried = r.tried,
                              !.user_keys = IF loaded_layout = NULL THEN 0
                                            ELSE loaded_layout.user_keys]
  /\ UNCHANGED <<loaded_codepage, extract_buf, font, ndebug, regs, dos_mem>>

\* a call of DOS_GetLoadedLayout
GetLoadedLayout ==
  /\ halted = ""
  /\ calls < MaxCalls
  /\ calls' = calls + 1
  /\ last' = [Call("query", 0, <<>>, "none", 0, 0, -1, 0, -1, FALSE, 0,
                    <<>>, -1, <<>>)
                 EXCEPT !.query = DOS_GetLoadedLayout(loaded_layout)]
  /\ UNCHANGED <<loaded_layout, loaded_codepage, read_buf, extract_buf, font,
                 ndebug, halted, regs, dos_mem>>

\* the test of the destructor that reloads the ROM fonts
ReloadsRomFonts_never(cp, text_mode) == FALSE

ReloadsRomFonts(cp, text_mode) == cp # 437 /\ text_mode

\* DOS_KeyboardLayout::~DOS_KeyboardLayout; text_mode: CurMode->type == M_TEXT
ShutDown(text_mode) ==
  /\ halted = ""
  /\ calls < MaxCalls
  /\ calls' = calls + 1
  /\ loaded_layout # NULL
  /\ IF ReloadsRomFonts(loaded_codepage, text_mode)
     THEN loaded_codepage' = 437 /\ font' = RomFont
     ELSE UNCHANGED <<loaded_codepage, font>>
  /\ loaded_layout' = NULL
  /\ last' = [Call("shutdown", 0, <<>>, "none", 0, 0, -1, 0, -1, FALSE, 0,
                    <<>>, -1, <<>>)
                 EXCEPT !.text_mode = text_mode, !.cp_before = loaded_codepage]
  /\ UNCHANGED <<read_buf, extract_buf, ndebug, halted, regs, dos_mem>>

Next ==
  \/ \E i \in LoadInputs : Load(i[1], i[2], i[3], i[4])
  \/ \E i \in SwitchInputs : Switch(i[1], i[2])
  \/ \E i \in KeyInputs : LayoutKey(i[1], i[2], i[3], i[4])
  \/ \E text_mode \in BOOLEAN : ShutDown(text_mode)
  \/ GetLoadedLayout

Spec == Init /\ [][Next]_vars

\* ------------------------------------------------------------------------
\* Properties
\* ------------------------------------------------------------------------
\* the step is a call of DOS_LayoutKey, of DOS_SwitchKeyboardLayout, of
\* DOS_LoadKeyboardLayout
KeyStep == calls' = calls + 1 /\ last'.op = "key"

SwitchStep == calls' = calls + 1 /\ last'.op = "switch"

LoadStep == calls' = calls + 1 /\ last'.op = "load"

\* no layout object, or one that is not in use
PassThrough(ll) == ll = NULL \/ ~ll.use_foreign_layout

\* the dead key pending on ll: 0, or the command byte of a sub-table
Pending(ll) == IF ll = NULL THEN 0 ELSE ll.diacritics_character

\* sub-table n of the diacritics table of l: the offset of its header, its
\* lead byte, the number of its pairs, and the indices of the pairs whose
\* first byte is ch
SubTable(l, n) == DiaStart(l, n, 0).start

LeadByte(l, n) == l.diacritics[SubTable(l, n) + 1]

PairCount(l, n) == l.diacritics[SubTable(l, n) + 2]

PairsFor(l, n, ch) ==
  {i \in 0..(PairCount(l, n) - 1) : l.diacritics[SubTable(l, n) + 3 + 2 * i] = ch}

FirstPairFor(l, n, ch) ==
  CHOOSE i \in PairsFor(l, n, ch) : \A j \in PairsFor(l, n, ch) : i <= j

PairSecond(l, n, i) == l.diacritics[SubTable(l, n) + 4 + 2 * i]

\* a dead key of an existing sub-table is pending on ll
DeadKeyPending(ll) ==
  /\ ll # NULL
  /\ ll.diacritics_character >= 200
  /\ ll.diacritics_character < 200 + ll.diacritics_entries

\* C1: while use_foreign_layout is false (no layout object and the layout
\* "none" included), a call of DOS_LayoutKey returns false, enqueues nothing
\* and leaves the layout (table, diacritics_character, user_keys) as it was.
C1_PassThroughIdentity ==
  [][(KeyStep /\ PassThrough(loaded_layout))
       => /\ last'.ret = FALSE
          /\ last'.out = <<>>
          /\ loaded_layout' = loaded_layout]_vars

\* a key within the table's range was given to a layout that holds a table of
\* mappings and is not in use
C1_Witness ==
  /\ last.op = "key"
  /\ last.key <= MAX_SCAN_CODE
  /\ loaded_layout # NULL
  /\ ~loaded_layout.use_foreign_layout
  /\ Entry(loaded_layout, last.key, 0) # 0
  /\ last.ret = FALSE

\* the call before this step dispatched a dead-key command of an existing
\* sub-table, and this step is a call that dispatches a literal entry
DeadKeyThenLiteral ==
  /\ last.op = "key"
  /\ last.disp = "command"
  /\ last.entry % 256 >= 200
  /\ last.entry % 256 < 235
  /\ DeadKeyPending(loaded_layout)
  /\ loaded_layout.diacritics_character = last.entry % 256
  /\ KeyStep
  /\ last'.disp = "literal"

C3_EmittedValue ==
  [][(KeyStep /\ DeadKeyPending(loaded_layout) /\ last'.disp = "literal")
       => LET n == loaded_layout.diacritics_character - 200
              ch == last'.entry % 256
          IN  /\ last'.out # <<>>
              /\ last'.out[1] = last'.key * 256 +
                   (IF PairsFor(loaded_layout, n, ch) # {}
                    THEN PairSecond(loaded_layout, n,
                                    FirstPairFor(loaded_layout, n, ch))
                    ELSE LeadByte(loaded_layout, n))
              /\ loaded_layout'.diacritics_character = 0]_vars

\* a literal was dispatched while a dead key was pending, and the one value
\* of the matching pair was enqueued
C3_Witness ==
  /\ last.op = "key"
  /\ last.disp = "literal"
  /\ last.pending >= 200
  /\ Len(last.out) = 1
  /\ Pending(loaded_layout) = 0

\* C4: while a dead key is pending, a call for one of the scan codes 0x1D,
\* 0x2A, 0x36, 0x38, 0x3A, 0x45, 0x46 enqueues nothing and leaves
\* diacritics_character as it was.
C4_ModifierTransparency ==
  [][(KeyStep /\ Pending(loaded_layout) > 0 /\ last'.key \in ModifierScans)
       => /\ last'.out = <<>>
          /\ Pending(loaded_layout') = Pending(loaded_layout)]_vars

\* what a call of DOS_LayoutKey returns and enqueues, and how it ends
Observed(r) == <<r.ret, r.out, r.halt>>

\* layout ll with the read buffer rb and layout kk with the read buffer sb
\* answer every key, and every key after every key, alike
SameTranslate(ll, rb, kk, sb, cp, ndbg) ==
  \A i \in KeyInputs :
     LET After(a, b) ==
           /\ Observed(a) = Observed(b)
           /\ \A j \in KeyInputs :
                 Observed(DOS_LayoutKey(a.l, a.rb, j[1], j[2], j[3], j[4], cp, ndbg))
                   = Observed(DOS_LayoutKey(b.l, b.rb, j[1], j[2], j[3], j[4], cp,
                                            ndbg))
     IN  After(DOS_LayoutKey(ll, rb, i[1], i[2], i[3], i[4], cp, ndbg),
               DOS_LayoutKey(kk, sb, i[1], i[2], i[3], i[4], cp, ndbg))

\* C5: when DOS_SwitchKeyboardLayout returns a code other than NoError, the
\* layout object and the loaded code page are as before the call, and
\* DOS_LayoutKey answers every key and every sequence of keys as it did before.
C5_SwitchAtomicity ==
  [][(SwitchStep /\ halted' = "" /\ last'.ret # KEYB_NOERROR)
       => /\ loaded_layout' = loaded_layout
          /\ loaded_codepage' = loaded_codepage
          /\ SameTranslate(loaded_layout, read_buf, loaded_layout', read_buf',
                           loaded_codepage, ndebug)]_vars

\* C6: DOS_LoadKeyboardLayout runs the code-page load only after a KL parse
\* that returned NoError and returns the code of a KL parse that failed, and
\* when it returns a code other than NoError the layout object is as before
\* the call and DOS_LayoutKey answers every key and every sequence of keys as
\* it did before.
C6_LoadAtomicity ==
  [][(LoadStep /\ halted' = "")
       => /\ last'.cp_tried => last'.kl_ret = KEYB_NOERROR
          /\ last'.kl_ret # KEYB_NOERROR => last'.ret = last'.kl_ret
          /\ last'.ret # KEYB_NOERROR
               => /\ loaded_layout' = loaded_layout
                  /\ SameTranslate(loaded_layout, read_buf, loaded_layout',
                                   read_buf', loaded_codepage, ndebug)]_vars

\* C7: every index of read_buf that a KL parse read lies below the number of
\* bytes that were loaded into it.
C7_ReadsInsideBuffer == last.mr >= 0 => last.mr < last.size

\* C8: no failure of a load or a switch ends the program or leaves the call
\* as an exception.
C8_ErrorsAreStatusCodes == halted \notin {"exit", "exception"}

\* C9: diacritics_character is 0 or names an existing sub-table, and neither
\* the parser writes nor the translation reads the diacritics array out of
\* range.
C9_DeadKeyState ==
  /\ halted # "ub_diacritics"
  /\ loaded_layout # NULL
       => \/ loaded_layout.diacritics_character = 0
          \/ DeadKeyPending(loaded_layout)

\* C10: additional_planes is at most layout_pages - 4 = 8 in every state, and
\* the plane scan of layout_key stays inside current_layout_planes[0..7].
C10_PlanesBounded ==
  /\ halted # "ub_planes"
  /\ loaded_layout # NULL => loaded_layout.additional_planes <= layout_pages - 4

\* a key was translated by a layout of eight additional planes
C10_Witness ==
  /\ last.op = "key"
  /\ last.key <= MAX_SCAN_CODE
  /\ loaded_layout # NULL
  /\ loaded_layout.use_foreign_layout
  /\ loaded_layout.additional_planes = layout_pages - 4

\* the last call ran a KL parse that got past the opening of the file and
\* returned
ParseReturned ==
  /\ halted = ""
  /\ last.kl_cp # -1
  /\ CStr(last.name) # N_none
  /\ last.kl_ret \in {KEYB_NOERROR, KEYB_LAYOUTNOTFOUND}

\* where that parse found the payload in read_buf: behind the five header
\* bytes of a bare .KL file, at the start of a library record
PayloadStart == IF last.name \in DOMAIN KLFiles THEN 5 ELSE 0

KeybCBStart == PayloadStart + 1 + Rd(read_buf, PayloadStart)

\* the code pages of the submapping descriptors of the file parsed
SubmapCodepages ==
  {RdW(read_buf, KeybCBStart + 20 + 8 * k) :
     k \in 0..(Rd(read_buf, KeybCBStart) - 1)}

\* C11 as stated: a KL parse with no explicit submapping index returns
\* LayoutNotFound exactly when no submapping is for the requested code page
\* and none is a wildcard (code page 0).
C11_NotFoundIffNoMatchNoWildcard ==
  ParseReturned
    => (last.kl_ret = KEYB_LAYOUTNOTFOUND
          <=> (last.kl_cp \notin SubmapCodepages /\ 0 \notin SubmapCodepages))

\* C11 amended: a KL parse with no explicit submapping index returns
\* LayoutNotFound exactly when no submapping is for the requested code page,
\* whether or not a wildcard submapping exists; the layout such a parse
\* leaves at session creation does not have use_foreign_layout set.
C11_NotFoundIffNoExactMatch ==
  ParseReturned
    => /\ last.kl_ret = KEYB_LAYOUTNOTFOUND <=> last.kl_cp \notin SubmapCodepages
       /\ (last.op = "init" /\ last.kl_ret = KEYB_LAYOUTNOTFOUND)
            => ~loaded_layout.use_foreign_layout

C11_Witness ==
  /\ ParseReturned
  /\ 0 \in SubmapCodepages
  /\ last.kl_cp \notin SubmapCodepages
  /\ last.kl_ret = KEYB_LAYOUTNOTFOUND
\* the last call ran a KL parse on the layout that is loaded_layout now (at
\* session creation, or by a switch-layout command of a key), and the parse
\* returned LayoutNotFound
NotFoundOnLoadedLayout ==
  /\ halted = ""
  /\ last.op \in {"init", "key"}
  /\ last.kl_ret = KEYB_LAYOUTNOTFOUND

\* every translate call returns false, enqueues nothing and changes nothing
TranslateIsIdentity ==
  \A i \in KeyInputs :
     LET r == DOS_LayoutKey(loaded_layout, read_buf, i[1], i[2], i[3], i[4],
                            loaded_codepage, ndebug)
     IN  ~r.ret /\ r.out = <<>> /\ r.halt = "" /\ r.l = loaded_layout

\* C12: when a KL parse on a fresh layout or on the live layout returns
\* LayoutNotFound, the layout's table is all zero, diacritics_entries,
\* diacritics_character and user_keys are 0, used_lock_modifiers is 0x0F, and
\* translate returns false and enqueues nothing for every input.
C12_ResetOnLayoutNotFound ==
  NotFoundOnLoadedLayout
    => /\ loaded_layout.current_layout = ZeroTable
       /\ loaded_layout.diacritics_entries = 0
       /\ loaded_layout.diacritics_character = 0
       /\ loaded_layout.user_keys = 0
       /\ loaded_layout.used_lock_modifiers = 15
       /\ TranslateIsIdentity

\* a switch-layout command re-parsed a file whose wildcard submapping maps
\* keys, and the parse returned LayoutNotFound
C12_Witness ==
  /\ NotFoundOnLoadedLayout
  /\ last.op = "key" /\ last.disp = "command"
  /\ loaded_layout.use_foreign_layout
  /\ 0 \in {RdW(read_buf, 5 + 1 + Rd(read_buf, 5) + 20 + 8 * k) :
               k \in 0..(Rd(read_buf, 5 + 1 + Rd(read_buf, 5)) - 1)}
\* the candidate libraries in the listed order: the four files, then the four
\* built-in ones; whether library k holds a record for id (through its first
\* id only, or through any id or id+number), and the bytes the parser loads
\* from that record
LibraryHit(k, id, first_id_only) ==
  IF k <= 4
  THEN read_kcl_file(KCLLibFiles[k], id, first_id_only, ndebug).pos # 0
  ELSE read_kcl_data(BLOB_KEYBOARD_SYS[k - 4], id, first_id_only).pos # 0

LibraryRecord(k, id, first_id_only) ==
  LET lib == IF k <= 4 THEN KCLLibFiles[k] ELSE BLOB_KEYBOARD_SYS[k - 4]
      pos == IF k <= 4 THEN read_kcl_file(lib, id, first_id_only, ndebug).pos
             ELSE read_kcl_data(lib, id, first_id_only).pos
  IN  SubSeq(lib, pos + 3, Len(lib))

\* the record of the earliest library among ks with a hit of the given kind
EarliestHit(ks, id, first_id_only) ==
  LibraryRecord(CHOOSE k \in ks : /\ LibraryHit(k, id, first_id_only)
                                  /\ \A j \in ks : LibraryHit(j, id, first_id_only)
                                                        => k <= j,
                id, first_id_only)

AnyHit(ks, id, first_id_only) == \E k \in ks : LibraryHit(k, id, first_id_only)

\* read_buf starts with these bytes
Loaded(bytes) ==
  Len(read_buf) >= Len(bytes) /\ SubSeq(read_buf, 1, Len(bytes)) = bytes

\* the last call looked its layout up in the libraries and found a record
LibraryLookup ==
  /\ halted = ""
  /\ last.op \in {"init", "load"}
  /\ last.kl_cp # -1
  /\ CStr(last.name) # N_none
  /\ last.name \notin DOMAIN KLFiles
  /\ last.kl_ret # KEYB_FILENOTFOUND

\* C13 as stated: over the four library files and the four built-in
\* libraries, a record matching through its first id in any of them is
\* selected before one matching through a later id or id+number in any other;
\* among hits of the same kind the earlier library wins.
C13_PrimaryFirstOverAllLibraries ==
  LibraryLookup
    => Loaded(IF AnyHit(1..8, last.name, TRUE)
              THEN EarliestHit(1..8, last.name, TRUE)
              ELSE EarliestHit(1..8, last.name, FALSE))

\* C13 amended: among the four library files a first-id match in any file is
\* selected before a match through a later id or id+number in any other file,
\* the earlier file winning among hits of the same kind; the built-in
\* libraries are searched the same way, but only when no library file holds a
\* match of either kind.
C13_FilesBeforeBuiltins ==
  LibraryLookup
    => Loaded(IF AnyHit(1..4, last.name, TRUE)
              THEN EarliestHit(1..4, last.name, TRUE)
              ELSE IF AnyHit(1..4, last.name, FALSE)
              THEN EarliestHit(1..4, last.name, FALSE)
              ELSE IF AnyHit(5..8, last.name, TRUE)
              THEN EarliestHit(5..8, last.name, TRUE)
              ELSE EarliestHit(5..8, last.name, FALSE))

\* a layout was loaded through its first id in the second library file
\* although the first library file holds it under a later id
C13_Witness ==
  /\ LibraryLookup
  /\ LibraryHit(1, last.name, FALSE) /\ ~LibraryHit(1, last.name, TRUE)
  /\ LibraryHit(2, last.name, TRUE)
  /\ Loaded(LibraryRecord(2, last.name, TRUE))
  /\ ~Loaded(LibraryRecord(1, last.name, FALSE))
\* with ll loaded, every translate call returns false, enqueues nothing and
\* changes nothing, and the name query reports no layout
USPassThrough(ll, rb) ==
  /\ DOS_GetLoadedLayout(ll) = NULL
  /\ \A i \in KeyInputs :
        LET r == DOS_LayoutKey(ll, rb, i[1], i[2], i[3], i[4], loaded_codepage,
                               ndebug)
        IN  ~r.ret /\ r.out = <<>> /\ r.halt = "" /\ r.l = ll

\* the layout load of session creation returned an error
InitialLoadFailed == halted = "" /\ last.op = "init" /\ last.ret # KEYB_NOERROR

\* the step is a load or a switch that returns NoError
LoadOrSwitchSucceeds ==
  (LoadStep \/ SwitchStep) /\ halted' = "" /\ last'.ret = KEYB_NOERROR

\* C14: when the layout load of session creation fails, translate returns
\* false and enqueues nothing for every input and the name query reports no
\* layout; this stays so over every call other than a load or a switch that
\* succeeds.
C14_FailedInitialLoadIsPassThrough ==
  [][/\ InitialLoadFailed => USPassThrough(loaded_layout, read_buf)
     /\ (USPassThrough(loaded_layout, read_buf) /\ halted' = ""
           /\ ~LoadOrSwitchSucceeds)
          => USPassThrough(loaded_layout', read_buf')]_vars

\* session creation failed, a later load failed too, and the layout is still
\* the one that session creation left
C14_Witness ==
  /\ halted = "" /\ last.op = "load" /\ last.ret # KEYB_NOERROR
  /\ loaded_layout # NULL
  /\ ~loaded_layout.use_foreign_layout
  /\ loaded_layout.current_layout = ZeroTable
  /\ CStr(loaded_layout.current_keyboard_file_name) \in {N_xx, N_pl, N_zz}
\* the step is a load whose code-page load opened the file it was given
LoadReadsCpiFile ==
  /\ LoadStep
  /\ last'.cp_tried
  /\ CStr(last'.cp_file) \notin {N_none, N_auto}
  /\ last'.kl_cp # loaded_codepage
  /\ OpenCpiFile(CStr(last'.cp_file)) # NoFile

\* the unsigned 16-bit and 32-bit values at offset i of a file
U16At(f, i) == FileByte(f, i) + 256 * FileByte(f, i + 1)

U32At(f, i) == U16At(f, i) + 65536 * U16At(f, i + 2)

\* the file starts with 7F 'D' 'R' 'F' '_'
IsDrDos(f) ==
  /\ FileByte(f, 0) = 127 /\ FileByte(f, 1) = 68 /\ FileByte(f, 2) = 82
  /\ FileByte(f, 3) = 70 /\ FileByte(f, 4) = 95

\* the file starts with FF 'F' 'O' 'N' 'T' and its first code-page entry lies
\* inside it
IsPlainCpi(f) ==
  /\ FileByte(f, 0) = 255 /\ FileByte(f, 1) = 70 /\ FileByte(f, 2) = 79
  /\ FileByte(f, 3) = 78 /\ FileByte(f, 4) = 84
  /\ U32At(f, 19) + 4 + 26 <= f.size

FirstEntry(f) == U32At(f, 19) + 4

\* C15: a code-page file that starts with 7F 44 52 46 5F is rejected with
\* InvalidCPFile whatever else it holds, and the load leaves the fonts and the
\* loaded code-page id as they were.
C15_DrDosRejected ==
  [][(LoadReadsCpiFile /\ IsDrDos(OpenCpiFile(CStr(last'.cp_file))))
       => /\ halted' = ""
          /\ last'.ret = KEYB_INVALIDCPFILE
          /\ font' = font
          /\ loaded_codepage' = loaded_codepage]_vars

\* C16: when the font-header offset of a code-page entry lies outside the
\* CPI buffer, the code-page load returns InvalidCPFile and fails in no other
\* way.
C16_OffsetsOutsideRejected ==
  [][(/\ LoadReadsCpiFile
      /\ IsPlainCpi(OpenCpiFile(CStr(last'.cp_file)))
      /\ LET f == OpenCpiFile(CStr(last'.cp_file))
         IN  U32At(f, FirstEntry(f) + 22) >= f.size)
       => /\ halted' = ""
          /\ last'.ret = KEYB_INVALIDCPFILE]_vars

\* C17: when the next-pointer of a code-page entry does not lead to a larger
\* offset, the code-page load returns InvalidCPFile.
C17_ForwardChainOnly ==
  [][(/\ LoadReadsCpiFile
      /\ IsPlainCpi(OpenCpiFile(CStr(last'.cp_file)))
      /\ LET f == OpenCpiFile(CStr(last'.cp_file))
         IN  /\ U16At(f, U32At(f, 19)) >= 2
             /\ U16At(f, FirstEntry(f) + 14) # last'.kl_cp
             /\ U32At(f, FirstEntry(f) + 22) + 2 <= f.size
             /\ U32At(f, FirstEntry(f)) + 2 <= FirstEntry(f))
       => /\ halted' = ""
          /\ last'.ret = KEYB_INVALIDCPFILE]_vars

\* the image the code-page load of call c searched: the file itself, or what
\* the unpacker left of a packed file or of the built-in one
CpiImageOf(c) ==
  LET auto == CStr(c.cp_file) = N_auto
      i == get_CPX_file_id(c.kl_cp)
      f == OpenCpiFile(IF auto /\ i >= 0 THEN FILE_EGA_CPX(i) ELSE CStr(c.cp_file))
  IN  IF f = NoFile
      THEN IF i >= 0 THEN BLOB_EGA_CPX(i).unpacked ELSE <<>>
      ELSE IF FileByte(f, 0) = 255 THEN f.at ELSE f.unpacked

\* the image holds, at some offset, a code-page entry of device type 1 for cp
\* whose font header has font type 1
HasMatchingEntry(image, cp) ==
  LET f == [at |-> image]
  IN  \E a \in DOMAIN image :
         /\ a >= 14
         /\ U16At(f, a - 14 + 4) = 1
         /\ U16At(f, a - 14 + 14) = cp
         /\ U16At(f, U32At(f, a - 14 + 22)) = 1

\* C18: dos.loaded_codepage is 437 unless the code-page load of session
\* creation found an entry for it; a load or switch changes it only through a
\* code-page load that found an entry of device type 1 and font type 1 for the
\* wanted code page, and then it is the wanted code page and NoError is
\* returned; a code-page load that returns InvalidCPFile leaves it as it was.
C18_LoadedCodepage ==
  [][/\ last.op = "init"
          => \/ loaded_codepage = 437
             \/ HasMatchingEntry(CpiImageOf([last EXCEPT !.kl_cp = loaded_codepage]),
                                  loaded_codepage)
     /\ ((LoadStep \/ SwitchStep) /\ loaded_codepage' # loaded_codepage)
          => /\ last'.cp_tried
             /\ halted' = ""
             /\ last'.ret = KEYB_NOERROR
             /\ loaded_codepage' = last'.kl_cp
             /\ HasMatchingEntry(CpiImageOf(last'), last'.kl_cp)
     /\ ((LoadStep \/ SwitchStep) /\ halted' = "" /\ last'.cp_tried
           /\ last'.ret = KEYB_NOERROR /\ CStr(last'.cp_file) # N_none)
          => loaded_codepage' = last'.kl_cp
     /\ ((LoadStep \/ SwitchStep) /\ halted' = ""
           /\ last'.ret = KEYB_INVALIDCPFILE)
          => loaded_codepage' = loaded_codepage
     /\ KeyStep => loaded_codepage' = loaded_codepage]_vars

\* a load whose code-page load found the wanted code page and changed
\* dos.loaded_codepage from 437 to it
C18_Witness ==
  /\ halted = "" /\ last.op = "load" /\ last.cp_tried
  /\ last.ret = KEYB_NOERROR
  /\ last.kl_cp # 437
  /\ loaded_codepage = last.kl_cp
  /\ HasMatchingEntry(CpiImageOf(last), last.kl_cp)
\* C19: after the destructor ran there is no layout, translate returns false
\* for every input and the name query reports none; when the loaded code page
\* was not 437 and a text mode was active the ROM fonts are back and the
\* loaded code page is 437, otherwise the fonts and the code page are as they
\* were.
C19_Teardown ==
  [][(calls' = calls + 1 /\ last'.op = "shutdown")
       => /\ loaded_layout' = NULL
          /\ USPassThrough(loaded_layout', read_buf')
          /\ IF loaded_codepage # 437 /\ last'.text_mode
             THEN font' = RomFont /\ loaded_codepage' = 437
             ELSE font' = font /\ loaded_codepage' = loaded_codepage]_vars

\* the destructor ran in a text mode with a code page other than 437 loaded
C19_Witness ==
  /\ last.op = "shutdown" /\ last.text_mode /\ last.cp_before # 437
  /\ loaded_layout = NULL /\ loaded_codepage = 437 /\ font = RomFont

\* the name starts with "US" in any letter case
StartsWithUS(name) ==
  Len(name) >= 2 /\ name[1] \in {85, 117} /\ name[2] \in {83, 115}

\* C20: a switch of a loaded layout to a name that starts with "US" in any
\* letter case returns NoError and leaves use_foreign_layout false and
\* translate pass-through; no layout is created, no file is read, and the
\* table, the plane predicates, language_codes, user_keys and the loaded code
\* page stay as they were.
C20_SwitchToUS ==
  [][(SwitchStep /\ loaded_layout # NULL /\ StartsWithUS(last'.name))
       => /\ halted' = ""
          /\ last'.ret = KEYB_NOERROR
          /\ last'.kl_ret = -1 /\ ~last'.cp_tried
          /\ loaded_layout' # NULL
          /\ ~loaded_layout'.use_foreign_layout
          /\ PassThrough(loaded_layout')
          /\ USPassThrough(loaded_layout', read_buf')
          /\ [loaded_layout' EXCEPT !.use_foreign_layout = FALSE,
                                    !.diacritics_character = 0]
               = [loaded_layout EXCEPT !.use_foreign_layout = FALSE,
                                       !.diacritics_character = 0]
          /\ read_buf' = read_buf
          /\ extract_buf' = extract_buf
          /\ font' = font
          /\ loaded_codepage' = loaded_codepage]_vars

\* a layout with a table was switched to US
C20_Witness ==
  /\ halted = "" /\ last.op = "switch" /\ StartsWithUS(last.name)
  /\ last.ret = KEYB_NOERROR
  /\ loaded_layout # NULL
  /\ ~loaded_layout.use_foreign_layout
  /\ loaded_layout.current_layout # ZeroTable
  /\ loaded_layout.language_code_count > 0

\* the name equals, in any letter case, one of the language codes of ll
LanguageCodeIs(ll, name) ==
  \E i \in 1..ll.language_code_count : StrCaseEq(name, ll.language_codes[i])

\* the switch re-enabled the layout in place: it returned NoError, no file
\* was parsed, and the layout is the one it was with use_foreign_layout set
ReenabledInPlace ==
  /\ halted' = ""
  /\ last'.ret = KEYB_NOERROR
  /\ last'.kl_ret = -1 /\ last'.kl_cp = -1 /\ ~last'.cp_tried
  /\ loaded_layout' # NULL
  /\ loaded_layout'.use_foreign_layout
  /\ [loaded_layout' EXCEPT !.use_foreign_layout = TRUE,
                            !.diacritics_character = 0]
       = [loaded_layout EXCEPT !.use_foreign_layout = TRUE,
                               !.diacritics_character = 0]

\* C21: a switch of a loaded layout to a name that does not start with "US"
\* re-enables the layout in place exactly when the name equals, in any letter
\* case, one of the layout's language codes; for every other name (a proper
\* prefix of a language code included) a KL parse runs on a temporary layout.
C21_SwitchByLanguageCode ==
  [][(SwitchStep /\ loaded_layout # NULL /\ ~StartsWithUS(last'.name))
       => /\ ReenabledInPlace <=> LanguageCodeIs(loaded_layout, last'.name)
          /\ ~LanguageCodeIs(loaded_layout, last'.name)
               => (last'.kl_ret # -1 \/ halted' # "")]_vars

\* C22: a call of DOS_GetLoadedLayout returns the name of the loaded layout
\* exactly when a layout object exists, its use_foreign_layout is true and its
\* name is not "none", and returns no name otherwise; the call changes nothing.
C22_QueryName ==
  [][(calls' = calls + 1 /\ last'.op = "query")
       => /\ IF /\ loaded_layout # NULL
                /\ loaded_layout.use_foreign_layout
                /\ CStr(loaded_layout.current_keyboard_file_name) # N_none
             THEN /\ last'.query # NULL
                  /\ last'.query.name = loaded_layout.current_keyboard_file_name
             ELSE last'.query = NULL
          /\ UNCHANGED <<loaded_layout, loaded_codepage, read_buf, extract_buf,
                         font, halted>>]_vars

\* the name of a layout in use was reported
C22_Witness ==
  /\ last.op = "query"
  /\ last.query # NULL
  /\ loaded_layout # NULL
  /\ loaded_layout.use_foreign_layout
  /\ last.query.name = loaded_layout.current_keyboard_file_name
  /\ loaded_layout.current_layout # ZeroTable

\* a key within the table's range is given to a layout in use
TranslateStep ==
  /\ KeyStep
  /\ loaded_layout # NULL
  /\ loaded_layout.use_foreign_layout
  /\ last'.key <= MAX_SCAN_CODE

\* bit n of the byte x
Bit(x, n) == (x \div Pow2(n)) % 2

\* the test that opens the shift/normal fast path
FastPath(l, flags1, flags3) ==
  /\ \A n \in 2..6 : ~(Bit(flags1, n) = 1 /\ Bit(l.used_lock_modifiers, n) = 1)
  /\ Bit(flags3, 1) = 0

\* the column the fast path selects: 1 (shift) or 0 (normal)
FastColumn(l, key, flags1) ==
  LET shift_down == Bit(flags1, 0) = 1 \/ Bit(flags1, 1) = 1
      caps_effect == Bit(FlagWord(l, key), 6) = 1 /\ Bit(flags1, 6) = 1
  IN  IF shift_down # caps_effect THEN 1 ELSE 0

\* the columns 0 and 1 among those whose entries were given to map_key
FastTried(tried) == {tried[i] : i \in {j \in DOMAIN tried : tried[j] < 2}}

\* C23: a translate call gives the entry of column 0 or 1 to map_key exactly
\* when the fast-path test holds and the entry of the selected column is
\* non-zero; the column is 1 when (a shift key is down) differs from (the key
\* is caps-affected and Caps Lock is on) and 0 otherwise, the command flag is
\* bit 1 resp. bit 0 of the row's command word, the entry comes first, and
\* the other of the two columns is never given to map_key.
C23_FastPath ==
  [][TranslateStep
       => LET l == loaded_layout
              key == last'.key
              c == FastColumn(l, key, last'.flags[1])
              taken == FastPath(l, last'.flags[1], last'.flags[3])
                         /\ Entry(l, key, c) # 0
          IN  /\ FastTried(last'.tried) = IF taken THEN {c} ELSE {}
              /\ taken => last'.tried[1] = c
              /\ (taken /\ last'.ret /\ Len(last'.tried) = 1)
                   => /\ last'.entry = Entry(l, key, c)
                      /\ last'.disp = IF Bit(CommandBits(l, key), c) = 1
                                      THEN "command" ELSE "literal"]_vars

\* Caps Lock alone selected the shift column of a caps-affected key
C23_Witness ==
  /\ last.op = "key" /\ last.key = 16 /\ last.flags = <<64, 0, 0>>
  /\ last.tried = <<1>> /\ last.disp = "literal" /\ last.ret
  /\ last.out = <<KeyWord(16, 81)>>

\* current_flags of a translate call, from its three flag bytes
CurrentFlags(flags) ==
  (flags[1] % 128) + 256 * ((flags[2] % 4) + 4 * ((flags[3] \div 4) % 4))
    + (IF flags[1] % 4 # 0 THEN 16384 ELSE 0)
    + (IF Bit(flags[3], 1) = 1 THEN 4096 ELSE 0)

\* every bit of mask is set in x / no bit of mask is set in x
AllBits(x, mask) == \A n \in 0..15 : Bit(mask, n) = 1 => Bit(x, n) = 1

NoBits(x, mask) == \A n \in 0..15 : Bit(mask, n) = 1 => Bit(x, n) = 0

\* the four predicates of additional plane p hold
PlaneFits(l, p, flags) ==
  LET pl == l.current_layout_planes[p]
  IN  /\ AllBits(CurrentFlags(flags), pl.required_flags)
      /\ AllBits(l.user_keys, pl.required_userflags)
      /\ NoBits(CurrentFlags(flags), pl.forbidden_flags)
      /\ NoBits(l.user_keys, pl.forbidden_userflags)

FittingPlanes(l, flags) ==
  {p \in 0..(l.additional_planes - 1) : PlaneFits(l, p, flags)}

\* the columns of additional planes among those given to map_key, in order
PlanesTried(tried) == SelectSeq(tried, LAMBDA c : c >= 2)

\* the call returned from the fast path
FastReturned(r) == r.disp # "none" /\ r.tried[Len(r.tried)] < 2

\* C24: the additional planes are tried in increasing index; every plane
\* whose entry is given to map_key fits and has a non-zero entry; the first
\* fitting plane, when its entry is non-zero, is the first one tried; and no
\* plane behind a fitting plane with a zero entry is tried.
C24_PlaneScanPolicy ==
  [][(TranslateStep /\ ~FastReturned(last'))
       => LET l == loaded_layout
              key == last'.key
              fit == FittingPlanes(l, last'.flags)
              t == PlanesTried(last'.tried)
          IN  /\ \A i \in DOMAIN t :
                   /\ t[i] - 2 \in fit
                   /\ Entry(l, key, t[i]) # 0
                   /\ \A j \in DOMAIN t : i < j => t[i] < t[j]
                   /\ \A q \in fit : q < t[i] - 2 => Entry(l, key, 2 + q) # 0
              /\ fit # {}
                   => LET p == CHOOSE q \in fit : \A q2 \in fit : q <= q2
                      IN  IF Entry(l, key, 2 + p) = 0 THEN t = <<>>
                          ELSE t # <<>> /\ t[1] = 2 + p]_vars

\* the first fitting plane had a zero entry and a later fitting plane with a
\* non-zero entry was not dispatched
C24_Witness ==
  /\ last.op = "key" /\ last.tried = <<>> /\ ~last.ret
  /\ loaded_layout # NULL /\ loaded_layout.use_foreign_layout
  /\ loaded_layout.user_keys = last.user_keys
  /\ \E p, q \in FittingPlanes(loaded_layout, last.flags) :
        /\ p < q
        /\ \A r \in FittingPlanes(loaded_layout, last.flags) : p <= r
        /\ Entry(loaded_layout, last.key, 2 + p) = 0
        /\ Entry(loaded_layout, last.key, 2 + q) # 0

\* a KL parse of a file returned NoError and the layout it filled is the
\* loaded one
ParsedLayoutLoaded ==
  /\ halted = ""
  /\ loaded_layout # NULL
  /\ last.kl_ret = KEYB_NOERROR
  /\ \/ last.op \in {"init", "key"}
     \/ last.op \in {"load", "switch"} /\ last.ret = KEYB_NOERROR
  /\ CStr(loaded_layout.current_keyboard_file_name) # N_none

\* the KeybCB block of that file in read_buf, the number of its additional
\* planes, and required_flags of its plane p
LoadedCBStart ==
  LET start == IF loaded_layout.current_keyboard_file_name \in DOMAIN KLFiles
               THEN 5 ELSE 0
  IN  start + 1 + Rd(read_buf, start)

LoadedPlaneCount ==
  IF Rd(read_buf, LoadedCBStart + 1) > layout_pages - 4 THEN layout_pages - 4
  ELSE Rd(read_buf, LoadedCBStart + 1)

LoadedRequiredFlags(p) ==
  RdW(read_buf, LoadedCBStart + 20 + 8 * Rd(read_buf, LoadedCBStart) + 8 * p)

\* C25: after a successful KL parse used_lock_modifiers has the bits 0..3,
\* every one of the bits 4..6 that is set in required_flags of one of the
\* file's additional planes, and no other bit.
C25_UsedLockModifiers ==
  ParsedLayoutLoaded
    => \A n \in 0..15 :
         Bit(loaded_layout.used_lock_modifiers, n) = 1
           <=> \/ n \in 0..3
               \/ /\ n \in 4..6
                  /\ \E p \in 0..(LoadedPlaneCount - 1) :
                        Bit(LoadedRequiredFlags(p), n) = 1

\* the file parsed has planes that want Caps Lock and Scroll Lock, and a plane
\* whose forbidden_flags and user masks have bits among 4..6 that no
\* required_flags has
C25_Witness ==
  /\ ParsedLayoutLoaded
  /\ loaded_layout.used_lock_modifiers = 95
  /\ \E p \in 0..(LoadedPlaneCount - 1) :
        /\ Bit(loaded_layout.current_layout_planes[p].forbidden_flags, 5) = 1
        /\ Bit(loaded_layout.current_layout_planes[p].required_flags, 6) = 1
  /\ \E p \in 0..(LoadedPlaneCount - 1) :
        Bit(loaded_layout.current_layout_planes[p].required_userflags, 5) = 1

\* the call dispatched a command entry whose code is in lo..(hi - 1)
CommandDispatched(r, lo, hi) ==
  r.disp = "command" /\ r.entry % 256 >= lo /\ r.entry % 256 < hi

\* C26: a translate call that dispatches a command with code c in 180..187
\* clears bit c - 180 of user_keys, one with c in 188..195 sets bit c - 188;
\* the call returns true, enqueues nothing and leaves the other bits of
\* user_keys and the rest of the layout as they were; and the planes a
\* translate call dispatches are those whose user-flag masks fit the value
\* user_keys has when the call is made.
C26_UserFlagCommands ==
  [][TranslateStep
       => LET l == loaded_layout
              c == last'.entry % 256
          IN  /\ CommandDispatched(last', 180, 196)
                   => /\ last'.ret /\ last'.out = <<>> /\ halted' = ""
                      /\ loaded_layout'
                           = [l EXCEPT !.user_keys = loaded_layout'.user_keys]
                      /\ \A n \in 0..15 :
                           Bit(loaded_layout'.user_keys, n) =
                             IF c < 188 /\ n = c - 180 THEN 0
                             ELSE IF c >= 188 /\ n = c - 188 THEN 1
                             ELSE Bit(l.user_keys, n)
                      /\ read_buf' = read_buf
              /\ \A i \in DOMAIN last'.tried :
                   last'.tried[i] >= 2
                     => LET pl == l.current_layout_planes[last'.tried[i] - 2]
                        IN  /\ AllBits(l.user_keys, pl.required_userflags)
                            /\ NoBits(l.user_keys, pl.forbidden_userflags)]_vars

\* a command cleared a user flag that was set
C26_Witness ==
  /\ last.op = "key" /\ last.user_keys = 1 /\ last.disp = "command"
  /\ last.entry = 180
  /\ loaded_layout # NULL /\ loaded_layout.user_keys = 0

\* C27: a translate call that does not dispatch a command with a code in
\* 180..195 (one that dispatches a literal, a dead-key command, the no-op or a
\* switch-layout command included) leaves user_keys as it was.
C27_UserKeysOnlyByCommands ==
  [][(TranslateStep /\ ~CommandDispatched(last', 180, 196))
       => /\ loaded_layout' # NULL
          /\ loaded_layout'.user_keys = loaded_layout.user_keys]_vars

\* C28: when the first entry a translate call selects is a command, whatever
\* its code, the call returns true, enqueues nothing, and no further entry is
\* selected.
C28_CommandsAlwaysHandled ==
  [][(/\ TranslateStep
      /\ last'.tried # <<>>
      /\ Bit(CommandBits(loaded_layout, last'.key), last'.tried[1]) = 1)
       => /\ last'.ret
          /\ last'.out = <<>>
          /\ last'.disp = "command"
          /\ last'.tried = <<last'.tried[1]>>]_vars

\* the number of submappings of the file in read_buf, and the first key record
\* of the key table of its submapping s: the scan code and the first entry
LoadedSubmappings == Rd(read_buf, LoadedCBStart)

FirstRecord(rb, s) ==
  LET off == RdW(rb, LoadedCBStart + 20 + 8 * s + 2)
  IN  [present |-> off # 0 /\ Rd(rb, LoadedCBStart + off) # 0,
       scan |-> Rd(rb, LoadedCBStart + off),
       entry |-> Rd(rb, LoadedCBStart + off + 3)]

\* C29: a translate call that dispatches a switch-layout command c in 120..139
\* on a layout whose name is not "none" returns true and enqueues nothing;
\* when c - 119 is less than the number of submappings of the file, the parse
\* it runs returns NoError, the layout stays in use, and the table holds the
\* key records of submapping c - 119.
C29_SubmappingSwitch ==
  [][(/\ TranslateStep
      /\ CommandDispatched(last', 120, 140)
      /\ CStr(loaded_layout.current_keyboard_file_name) # N_none)
       => /\ last'.ret /\ last'.out = <<>>
          /\ (last'.entry % 256) - 119 < LoadedSubmappings
               => /\ halted' = ""
                  /\ last'.kl_ret = KEYB_NOERROR
                  /\ loaded_layout'.use_foreign_layout
                  /\ LET f == FirstRecord(read_buf', (last'.entry % 256) - 119)
                     IN  (f.present /\ f.entry # 0)
                           => Entry(loaded_layout', f.scan, 0) = f.entry]_vars

\* a dead key is pending, the key is no state-changing key, and the call
\* dispatched no entry and returned
PendingAndUntranslated ==
  /\ TranslateStep
  /\ Pending(loaded_layout) > 0
  /\ last'.key \notin ModifierScans
  /\ last'.disp = "none"
  /\ halted' = ""

\* C30 as stated: a translate call for a key that is no state-changing key
\* and has no entry to dispatch, made while a dead key is pending, clears
\* diacritics_character, returns true and enqueues nothing.
C30_PendingConsumedSilently ==
  [][PendingAndUntranslated
       => /\ loaded_layout'.diacritics_character = 0
          /\ last'.ret
          /\ last'.out = <<>>]_vars

\* C30: such a call clears diacritics_character, enqueues one value, the scan
\* code above the lead byte of the pending sub-table, returns false, and
\* leaves the rest of the layout as it was.
C30_PendingEmitsLeadByte ==
  [][PendingAndUntranslated
       => /\ loaded_layout'.diacritics_character = 0
          /\ loaded_layout' = [loaded_layout EXCEPT !.diacritics_character = 0]
          /\ ~last'.ret
          /\ DeadKeyPending(loaded_layout)
          /\ last'.out =
               <<last'.key * 256
                   + LeadByte(loaded_layout,
                              loaded_layout.diacritics_character - 200)>>]_vars

\* a key without any entry was pressed while a dead key was pending
C30_Witness ==
  /\ halted = "" /\ last.op = "key" /\ last.pending >= 200
  /\ last.key \notin ModifierScans
  /\ last.disp = "none" /\ last.tried = <<>>
  /\ Len(last.out) = 1 /\ ~last.ret
  /\ loaded_layout # NULL /\ loaded_layout.diacritics_character = 0

\* ------------------------------------------------------------------------
\* The key-table parser: entries, cursor, flag rows, bounds
\* ------------------------------------------------------------------------
\* C31: a key-table record installs entries in planes 0 .. additional_planes+1
\* only.  The table is zeroed when a parse starts, so after any parse every
\* entry of the planes additional_planes+2 .. 9 is 0 and so is its command
\* bit, whatever the length of the records.
C31_InstalledEntries ==
  ParsedLayoutLoaded =>
    \A scan \in 0..MAX_SCAN_CODE :
      \A p \in (loaded_layout.additional_planes + 2)..(layout_pages - 3) :
        /\ Entry(loaded_layout, scan, p) = 0
        /\ Bit(Entry(loaded_layout, scan, layout_pages - 2), p) = 0

\* the scan bytes of the records of a key table, walked from pos to the end
\* of the file with a cursor that moves over three header bytes and
\* scan_length entries of one byte, or of two bytes when bit 7 of the flag
\* byte is set
RECURSIVE RecordScans(_, _, _)
RecordScans(rb, pos, end) ==
  IF pos >= end \/ Rd(rb, pos) = 0 THEN {}
  ELSE LET n == (Rd(rb, pos + 1) % 8) + 1
           width == IF Bit(Rd(rb, pos + 1), 7) = 1 THEN 2 ELSE 1
       IN  {Rd(rb, pos)} \cup RecordScans(rb, pos + 3 + n * width, end)

\* the scan bytes of the records of all key tables of the file loaded
LoadedRecordScans ==
  UNION {RecordScans(read_buf,
                     LoadedCBStart + RdW(read_buf, LoadedCBStart + 20 + 8 * s + 2),
                     last.size) :
           s \in {t \in 0..(LoadedSubmappings - 1) :
                    RdW(read_buf, LoadedCBStart + 20 + 8 * t + 2) # 0}}

\* C32: the cursor moves over every record by 3 + scan_length bytes, or by
\* 3 + 2 * scan_length when the S flag is set, whether or not the scan code
\* passes the MAX_SCAN_CODE test, so every header the parser reads is the
\* header of a record: after a load every row of the table that holds
\* anything belongs to the scan code of a record of the file.
C32_CursorAdvance ==
  (ParsedLayoutLoaded /\ last.op \in {"init", "load"}) =>
    \A scan \in 0..MAX_SCAN_CODE :
      (\E p \in 0..(layout_pages - 1) : Entry(loaded_layout, scan, p) # 0)
        => scan \in LoadedRecordScans

\* The records the parser processes in one key table, as the positions of
\* their headers in read_buf: from pos on until a scan byte of 0 or until the
\* budget of bytes is used up, each record three header bytes and
\* scan_length entries long, the entries two bytes wide when the S flag is
\* set and the scan code passes the MAX_SCAN_CODE test.
RECURSIVE TableRecords(_, _, _)
TableRecords(rb, pos, budget) ==
  IF budget <= 0 \/ Rd(rb, pos) = 0 THEN <<>>
  ELSE LET n == (Rd(rb, pos + 1) % 8) + 1
           width == IF Bit(Rd(rb, pos + 1), 7) = 1
                        /\ (Rd(rb, pos) % 128) <= MAX_SCAN_CODE
                    THEN 2 ELSE 1
       IN  <<pos>> \o TableRecords(rb, pos + 3 + n * width,
                                    budget - 3 - n * width)

\* the code page and the key table of submapping s of the file loaded
LoadedSubmapCodepage(s) == RdW(read_buf, LoadedCBStart + 20 + 8 * s)

LoadedTableOffset(s) == RdW(read_buf, LoadedCBStart + 20 + 8 * s + 2)

\* The submappings a load without a submapping index accepts: the wildcards
\* and those for the requested code page, up to and including the first for
\* the requested code page.
AcceptedSubmappings ==
  {s \in 0..(LoadedSubmappings - 1) :
     /\ LoadedSubmapCodepage(s) \in {0, last.kl_cp}
     /\ \A t \in 0..(s - 1) : LoadedSubmapCodepage(t) # last.kl_cp}

\* the budget of the key table at pos: the bytes from there to the end of
\* the file, and no limit for a table that starts behind the end
TableBudget(pos) ==
  IF pos > last.size THEN READ_BUF_LEN ELSE last.size - pos

\* the records processed in the submappings s .. of the file loaded, in the
\* order of processing
RECURSIVE ProcessedFrom(_)
ProcessedFrom(s) ==
  IF s >= LoadedSubmappings THEN <<>>
  ELSE (IF s \in AcceptedSubmappings /\ LoadedTableOffset(s) # 0
        THEN TableRecords(read_buf, LoadedCBStart + LoadedTableOffset(s),
                          TableBudget(LoadedCBStart + LoadedTableOffset(s)))
        ELSE <<>>) \o ProcessedFrom(s + 1)

\* those of them that are for scan code scan
RecordsFor(scan) ==
  SelectSeq(ProcessedFrom(0), LAMBDA pos : Rd(read_buf, pos) = scan)

\* the character byte of entry i of the record at pos, 0 when it has none
RecordEntry(pos, i) ==
  IF i > Rd(read_buf, pos + 1) % 8 THEN 0
  ELSE Rd(read_buf,
          pos + 3 + i * (IF Bit(Rd(read_buf, pos + 1), 7) = 1 THEN 2 ELSE 1))

\* the last of the records recs with a non-zero entry for plane i, 0: none
LastSupplier(recs, i) ==
  LET with == {k \in 1..Len(recs) : RecordEntry(recs[k], i) # 0}
  IN  IF with = {} THEN 0 ELSE CHOOSE k \in with : \A j \in with : j <= k

\* the flag row and the command bits of one scan code folded from recs
FoldHolds(scan, recs) ==
  /\ \A k \in 1..Len(recs) :
       Entry(loaded_layout, scan, layout_pages - 1) % 8
         >= Rd(read_buf, recs[k] + 1) % 8
  /\ \/ Entry(loaded_layout, scan, layout_pages - 1) % 8 = 0
     \/ \E k \in 1..Len(recs) :
          Entry(loaded_layout, scan, layout_pages - 1) % 8
            = Rd(read_buf, recs[k] + 1) % 8
  /\ \A n \in 4..7 :
       Bit(Entry(loaded_layout, scan, layout_pages - 1), n) = 1
         <=> \E k \in 1..Len(recs) : Bit(Rd(read_buf, recs[k] + 1), n) = 1
  /\ Entry(loaded_layout, scan, layout_pages - 1) < 256
  /\ \A i \in 0..(loaded_layout.additional_planes + 1) :
       LET k == LastSupplier(recs, i)
       IN  /\ Bit(Entry(loaded_layout, scan, layout_pages - 2), i)
                = IF k = 0 THEN 0 ELSE Bit(Rd(read_buf, recs[k] + 2), i)
           /\ Entry(loaded_layout, scan, i) % 256
                = IF k = 0 THEN 0 ELSE RecordEntry(recs[k], i)

TableInstalled(s) ==
  LET recs == TableRecords(read_buf, LoadedCBStart + LoadedTableOffset(s),
                           TableBudget(LoadedCBStart + LoadedTableOffset(s)))
  IN  \A k \in 1..Len(recs) :
        Rd(read_buf, recs[k]) <= MAX_SCAN_CODE =>
          \E p \in 0..(layout_pages - 1) :
            Entry(loaded_layout, Rd(read_buf, recs[k]), p) # 0

\* the scan codes with a non-empty row are those of the records of the
\* submappings subs
RowsAreOf(subs) ==
  \A scan \in 0..MAX_SCAN_CODE :
    (\E p \in 0..(layout_pages - 1) : Entry(loaded_layout, scan, p) # 0)
      => \E s \in subs :
           /\ LoadedTableOffset(s) # 0
           /\ \E k \in DOMAIN TableRecords(read_buf,
                                LoadedCBStart + LoadedTableOffset(s),
                                TableBudget(LoadedCBStart + LoadedTableOffset(s))) :
                Rd(read_buf,
                   TableRecords(read_buf, LoadedCBStart + LoadedTableOffset(s),
                                TableBudget(LoadedCBStart + LoadedTableOffset(s)))[k])
                  = scan

C35_LiteralEmission ==
  [][(KeyStep /\ loaded_layout # NULL /\ last'.disp = "literal"
        /\ Pending(loaded_layout) = 0)
       => /\ last'.out =
               <<IF Bit(Entry(loaded_layout, last'.key, layout_pages - 1), 7) = 1
                 THEN last'.entry
                 ELSE ((last'.key * 256) % 65536) + (last'.entry % 256)>>
          /\ last'.ret = TRUE
          /\ halted' = ""
          /\ UNCHANGED <<loaded_layout, loaded_codepage, read_buf, extract_buf,
                         font>>]_vars

\* scan code 0x10 with a shift key down and nothing pending: the entry 'Q' of
\* the shift plane went out as 0x1051
C35_Witness ==
  /\ last.op = "key"
  /\ last.key = 16
  /\ last.flags[1] \in {1, 2}
  /\ last.pending = 0
  /\ last.disp = "literal"
  /\ last.entry = 81
  /\ last.out = <<4177>>
  /\ last.ret = TRUE

\* C37: every write of the key-table parser to the layout table is at an
\* index inside the table, also for a record whose scan byte has bit 7 set
\* and passes the MAX_SCAN_CODE test: no load stops on a write outside the
\* array current_layout.
C37_TableWriteBounds == halted # "ub_table"

\* C39: the key-table loop of a submapping whose table starts at or behind
\* the end of the loaded file has a budget of 0 bytes: it reads no byte of
\* read_buf from the start of that table on and processes no record.
C39_ByteBudget ==
  (ParsedLayoutLoaded /\ last.op \in {"init", "load"}) =>
    \A s \in AcceptedSubmappings :
      (LoadedTableOffset(s) # 0
         /\ LoadedCBStart + LoadedTableOffset(s) >= last.size)
        => /\ last.mr < LoadedCBStart + LoadedTableOffset(s)
           /\ TableRecords(read_buf, LoadedCBStart + LoadedTableOffset(s),
                           TableBudget(LoadedCBStart + LoadedTableOffset(s)))
                = <<>>

\* ------------------------------------------------------------------------
\* Switching to US and back
\* ------------------------------------------------------------------------
\* the last call switched a layout in use to US, and this step switches to
\* one of the language codes of the layout (none of which starts with "US")
RoundTripStep ==
  /\ last.op = "switch"
  /\ StartsWithUS(last.name)
  /\ last.before # NULL
  /\ last.before.use_foreign_layout
  /\ SwitchStep
  /\ ~StartsWithUS(last'.name)
  /\ LanguageCodeIs(last.before, last'.name)

C36_UnpackFrame ==
  [][(calls' = calls + 1 /\ last'.op \in {"load", "switch"})
       => /\ regs' = regs
          /\ dos_mem' = dos_mem
          /\ last'.frame = IF last'.cpi.upx THEN <<1, 1>> ELSE <<0, 0>>]_vars

\* a load whose code page file was unpacked and then searched without a match
C36_Witness ==
  /\ last.op = "load"
  /\ last.cpi.upx
  /\ last.ret = KEYB_INVALIDCPFILE
  /\ last.cpi.walked > 0
  /\ halted = ""
  /\ last.frame = <<1, 1>>
  /\ dos_mem = {}
  /\ regs = [ds |-> 256, es |-> 512, ss |-> 768, esp |-> 1024]

\* ------------------------------------------------------------------------
\* The walk over the code page entries
\* ------------------------------------------------------------------------
\* the search loop of read_codepage_file made no more passes than the file
\* declares entries
CpiWalkBounded == last.cpi.walked <= last.cpi.entries

\* a search that followed the two entries of back.cpi round and round until
\* the declared count was used up
WalksWitness ==
  /\ last.op = "load"
  /\ last.cp_file = N_back_cpi
  /\ last.cpi.entries = 16
  /\ last.cpi.walked = 16
  /\ last.ret = KEYB_INVALIDCPFILE
  /\ halted = ""

\* C38: a search for a code page makes no more passes than the file declares
\* entries and then returns, KEYB_NOERROR with the code page loaded or
\* KEYB_INVALIDCPFILE, whatever the file holds.
C38_WalksReturn ==
  /\ CpiWalkBounded
  /\ last.cpi.walked > 0
       => /\ halted = ""
          /\ last.ret \in {KEYB_NOERROR, KEYB_INVALIDCPFILE}
          /\ last.ret = KEYB_NOERROR => loaded_codepage = last.kl_cp
====
